---- MODULE Spec2Model ----
(***************************************************************************)
(* Device session and command/response correlation of the Anova client.   *)
(*                                                                         *)
(* The controller object (src/client.py, src/controller.py) runs on one   *)
(* asyncio event loop: a coroutine runs without interruption between two   *)
(* of its await points, so every action below is one such segment of a     *)
(* coroutine.  Three kinds of steps interleave: the caller's task          *)
(* (connect, select_device, send_command_and_wait_for_response, the        *)
(* message stream, close), the background continuous_message_listener      *)
(* tasks, and the transport (the vendor's server and the network).         *)
(*                                                                         *)
(* Time is counted in ticks of one polling sleep (asyncio.sleep(0.1)).     *)
(***************************************************************************)
EXTENDS Integers, Sequences, FiniteSets, TLC

VARIABLES
    websocket,        \* self.websocket: "none" (None), "open", "closed"
    devices,          \* self.devices
    selected_device,  \* self.selected_device: <<>> (None) or <<device>>
    device_type,      \* self.device_type: "none" (None), "APC", "APO"
    message_history,  \* self.message_history
    listener_task,    \* self.listener_task: 0 (None) or the index of a task
    tasks,            \* every listener task created so far, by its status:
                      \* "running" (suspended in recv on self.websocket),
                      \* "stale" (suspended in recv on a socket that a later
                      \* connect has replaced in self.websocket),
                      \* "cancel_requested", or how it ended:
                      \* "recv_raised" (recv raised), "crashed" (a frame's
                      \* processing raised), "cancelled"
    pc,               \* where the caller's task is suspended
    elapsed,          \* ticks since start_time of the running polling loop
    timeout,          \* the timeout argument of the running send, in ticks
    initial_count,    \* initial_count of the running send
    result,           \* <<operation, value>>: what the caller's last call
                      \* returned ("pending" while it runs); a value
                      \* "True:..." or "False:..." is the boolean returned
                      \* and the exit of the code that returned it
    last_count,       \* last_count of the message-stream monitor
    displayed,        \* history indices of the messages displayed by the
                      \* running or last call: by the live monitor, or the
                      \* response a send returned True on
    in_window,        \* a RESPONSE arrived after the send and before the timeout
    command_data,     \* the command_data argument of the running or last send
    sent,             \* calls of self.websocket.send that returned, in the
                      \* running or last send
    reclose,          \* the running or last call is a close that was called
                      \* right after a close had returned
    entered,          \* what the user entered at the prompts of the running
                      \* or last operation, or the arguments main built its
                      \* cook from; <<>> when there are none
    temperature_unit, \* self.temperature_unit: "C" or "F"
    second,           \* a second task of the application that calls
                      \* send_command_and_wait_for_response: where it is
                      \* suspended and the local variables of its call
    previous,         \* <<>>, or the requestId and the value returned of
                      \* the send the caller made before the running one
    recv_timeouts,    \* the length of the message history at each receive
                      \* timeout of a listener task so far
    menu              \* run_interactive_menu: where it is ("none": not
                      \* called, "loop": in its while loop, "finally": in
                      \* or past its finally clause), the calls of close it
                      \* made, and what made it leave the loop

sessionVars == <<websocket, devices, selected_device, device_type,
                 message_history, listener_task, tasks>>
callerVars  == <<pc, elapsed, timeout, initial_count, result, last_count,
                 displayed, in_window, command_data, sent, reclose, entered>>
auxVars == <<second, previous, recv_timeouts, menu>>
vars == <<sessionVars, temperature_unit, callerVars, auxVars>>

----------------------------------------------------------------------------
(* Bounds of the model *)

\* frames the transport delivers in one run
MaxFrames == 2
\* connect calls in one run
MaxConnects == 2
\* largest timeout argument of a send, in ticks
MaxTimeout == 2
\* receive timeouts of the listener tasks in one run
MaxRecvTimeouts == 2

(* Program constants *)

\* wait_for_device_discovery: timeout = 5 (seconds)
DiscoveryTimeout == 5
\* one second in ticks of asyncio.sleep(0.1)
TicksPerSecond == 10
\* send_command_and_wait_for_response: timeout=10 (seconds)
DefaultTimeout == 10

\* timeout=30 of export_telemetry's send, in seconds
ExportTimeout == 30

----------------------------------------------------------------------------
(* Strings whose prefixes the code tests are sequences of characters *)

S_RESPONSE == <<"R","E","S","P","O","N","S","E">>
S_CMD_ == <<"C","M","D","_">>
S_STATE == <<"S","T","A","T","E">>
S_CMD_STATE == S_CMD_ \o S_STATE
S_EVENT_ == <<"E","V","E","N","T","_">>
S_EVENT_EXPORT_READY == S_EVENT_ \o <<"E","X","P","O","R","T","_","R","E","A","D","Y">>
S_WIFI_LIST == <<"_","W","I","F","I","_","L","I","S","T">>
S_EVENT_APC_WIFI_LIST == S_EVENT_ \o <<"A","P","C">> \o S_WIFI_LIST
S_EVENT_APO_WIFI_LIST == S_EVENT_ \o <<"A","P","O">> \o S_WIFI_LIST

\* str.startswith
StartsWith(s, prefix) ==
    /\ Len(s) >= Len(prefix)
    /\ SubSeq(s, 1, Len(prefix)) = prefix

----------------------------------------------------------------------------
(* Frames on the wire.  A frame is the JSON text the server sent, given by *)
(* its structure: not JSON at all, a JSON value that is no object, or an   *)
(* object with or without the keys the code reads.                         *)

Descriptor(hasId, id, hasName, name, hasType, type) ==
    [has_cookerId |-> hasId, cookerId |-> id,
     has_name |-> hasName, name |-> name,
     has_type |-> hasType, type |-> type]

Frame(json, hasCommand, command, hasPayload, payload) ==
    [json |-> json, has_command |-> hasCommand, command |-> command,
     has_payload |-> hasPayload, payload |-> payload]

ObjectFrame(command) == Frame("object", TRUE, command, FALSE, <<>>)
ListFrame(command, payload) == Frame("object", TRUE, command, TRUE, payload)

\* a cooker "a" announced with a name and no type
D_a_cooker == Descriptor(TRUE, "a", TRUE, "Nano", FALSE, "")
\* the same identifier announced again, as an oven of the second generation
D_a_oven == Descriptor(TRUE, "a", TRUE, "Oven", TRUE, "oven_v2")
\* an oven "b" with neither name nor type
D_b_oven == Descriptor(TRUE, "b", FALSE, "", FALSE, "")
\* a descriptor without cookerId
D_noid == Descriptor(FALSE, "", TRUE, "Ghost", FALSE, "")

F_invalid == Frame("invalid", FALSE, <<>>, FALSE, <<>>)
F_array == Frame("array", FALSE, <<>>, FALSE, <<>>)
F_response == ObjectFrame(S_RESPONSE)
F_cmd_state == ObjectFrame(S_CMD_STATE)
F_apc_list == ListFrame(S_EVENT_APC_WIFI_LIST, <<D_a_cooker>>)
F_apo_list == ListFrame(S_EVENT_APO_WIFI_LIST, <<D_b_oven, D_a_oven>>)
F_apc_noid == ListFrame(S_EVENT_APC_WIFI_LIST, <<D_noid, D_a_cooker>>)

Frames == {F_invalid, F_array, F_response, F_cmd_state,
           F_apc_list, F_apo_list, F_apc_noid}

\* json.loads(message): raises on text that is not JSON
JsonLoadsRaises(frame) == frame.json = "invalid"

\* the entry continuous_message_listener appends (timestamps are display only)
Entry(frame) == [data |-> frame, raw |-> frame]

\* data.get(...) raises AttributeError when data is not a dict
IsDict(data) == data.json = "object"

AppendMessage_AtFront(history, entry) == <<entry>> \o history

\* self.message_history.append({...})
AppendMessage(history, entry) == Append(history, entry)

----------------------------------------------------------------------------
(* Device Registry *)

\* the dict appended to self.devices for one descriptor
DeviceOf(device, family, defaultName) ==
    [id |-> device.cookerId,
     name |-> IF device.has_name THEN device.name ELSE defaultName,
     type |-> family,
     device_type |-> IF device.has_type THEN device.type ELSE "unknown"]

\* any(d["id"] == device["cookerId"] for d in self.devices)
Known(devs, id) == \E i \in 1..Len(devs) : devs[i].id = id

\* for device in data["payload"]: append it unless its id is known.
\* device["cookerId"] raises KeyError on a descriptor without the key; what
\* was appended before stays.
RECURSIVE AppendDevices(_, _, _, _)
AppendDevices(payload, family, defaultName, devs) ==
    IF payload = <<>> THEN [devices |-> devs, raised |-> FALSE]
    ELSE LET device == Head(payload) IN
         IF ~device.has_cookerId THEN [devices |-> devs, raised |-> TRUE]
         ELSE AppendDevices(Tail(payload), family, defaultName,
                IF Known(devs, device.cookerId) THEN devs
                ELSE Append(devs, DeviceOf(device, family, defaultName)))

ProcessDeviceDiscovery_Skipped(data, devs) == [devices |-> devs, raised |-> FALSE]

\* process_device_discovery(data), run by the listener on each frame
ProcessDeviceDiscovery(data, devs) ==
    IF ~IsDict(data) THEN [devices |-> devs, raised |-> TRUE]
    ELSE IF data.has_command /\ data.command = S_EVENT_APC_WIFI_LIST /\ data.has_payload
         THEN AppendDevices(data.payload, "APC", "Anova Precision Cooker", devs)
    ELSE IF data.has_command /\ data.command = S_EVENT_APO_WIFI_LIST /\ data.has_payload
         THEN AppendDevices(data.payload, "APO", "Anova Precision Oven", devs)
    ELSE [devices |-> devs, raised |-> FALSE]

\* the body of wait_for_device_discovery's loop over one message
DiscoveryCheckMessage(data, devs) ==
    IF ~IsDict(data) THEN [devices |-> devs, raised |-> TRUE]
    ELSE IF data.has_command /\ data.command = S_EVENT_APC_WIFI_LIST /\ data.has_payload
         THEN AppendDevices(data.payload, "APC", "Anova Precision Cooker", devs)
    ELSE IF data.has_command /\ data.command = S_EVENT_APO_WIFI_LIST /\ data.has_payload
         THEN AppendDevices(data.payload, "APO", "Anova Precision Oven", devs)
    ELSE [devices |-> devs, raised |-> FALSE]

\* for msg in self.message_history: ... of wait_for_device_discovery; an
\* exception leaves the loop with what was appended so far
RECURSIVE DiscoveryScan(_, _)
DiscoveryScan(history, devs) ==
    IF history = <<>> THEN [devices |-> devs, raised |-> FALSE]
    ELSE LET r == DiscoveryCheckMessage(Head(history).data, devs) IN
         IF r.raised THEN r ELSE DiscoveryScan(Tail(history), r.devices)

----------------------------------------------------------------------------
(* Command/Response Correlator *)

IsResponse_AnyEcho(command) ==
    \/ StartsWith(command, S_RESPONSE)
    \/ StartsWith(command, S_CMD_)
    \/ command = S_EVENT_EXPORT_READY

\* the condition under which send_command_and_wait_for_response returns True
IsResponse(command) ==
    \/ StartsWith(command, S_RESPONSE)
    \/ (StartsWith(command, S_CMD_) /\ ~StartsWith(command, S_CMD_STATE))
    \/ command = S_EVENT_EXPORT_READY

\* data.get("command", "")
CommandOf(data) == IF data.has_command THEN data.command ELSE <<>>

ScanFrom_NeedsRequestId(history, i) ==
    LET matches == {j \in i..Len(history) :
                      /\ IsDict(history[j].data)
                      /\ IsResponse(CommandOf(history[j].data))
                      /\ history[j].data.has_requestId}
    IN IF matches = {} THEN [outcome |-> "none", index |-> 0]
       ELSE [outcome |-> "match",
             index |-> CHOOSE j \in matches : \A k \in matches : j <= k]

ScanFrom_LastMatch(history, i) ==
    LET matches == {j \in i..Len(history) :
                      IsDict(history[j].data) /\ IsResponse(CommandOf(history[j].data))}
    IN IF matches = {} THEN [outcome |-> "none", index |-> 0]
       ELSE [outcome |-> "match",
             index |-> CHOOSE j \in matches : \A k \in matches : k <= j]

\* for msg in new_messages: the first message that is a response ends the
\* scan with "match"; data.get on a value that is no dict raises
RECURSIVE ScanFrom(_, _)
ScanFrom(history, i) ==
    IF i > Len(history) THEN [outcome |-> "none", index |-> 0]
    ELSE IF ~IsDict(history[i].data) THEN [outcome |-> "raise", index |-> i]
    ELSE IF IsResponse(CommandOf(history[i].data)) THEN [outcome |-> "match", index |-> i]
    ELSE ScanFrom(history, i + 1)

ScanNewMessages_WholeHistory(history, count) ==
    IF Len(history) > count THEN ScanFrom(history, 1)
    ELSE [outcome |-> "none", index |-> 0]

\* one pass of the polling loop over self.message_history[initial_count:]
ScanNewMessages(history, count) ==
    IF Len(history) > count THEN ScanFrom(history, count + 1)
    ELSE [outcome |-> "none", index |-> 0]

----------------------------------------------------------------------------
(* State after AnovaController.__init__ *)

\* run_interactive_menu was not called
NoMenu == [at |-> "none", closes |-> 0, exit |-> "none"]

\* a task that has not called the send
NoCall == [pc |-> "idle", initial_count |-> 0, elapsed |-> 0, timeout |-> 0,
           requestId |-> "none", result |-> "none", displayed |-> <<>>]

Init ==
    /\ websocket = "none"
    /\ devices = <<>>
    /\ selected_device = <<>>
    /\ device_type = "none"
    /\ message_history = <<>>
    /\ listener_task = 0
    /\ tasks = <<>>
    /\ pc = "idle"
    /\ elapsed = 0
    /\ timeout = 0
    /\ initial_count = 0
    /\ result = <<"none", "none">>
    /\ last_count = 0
    /\ displayed = <<>>
    /\ in_window = FALSE
    /\ command_data = <<>>
    /\ sent = 0
    /\ reclose = FALSE
    /\ entered = <<>>
    /\ temperature_unit = "C"
    /\ second = NoCall
    /\ previous = <<>>
    /\ recv_timeouts = <<>>
    /\ menu = NoMenu

\* asyncio.Task.done()
Done(status) == status \in {"recv_raised", "crashed", "cancelled"}

Running == {t \in 1..Len(tasks) : tasks[t] = "running"}
\* the tasks suspended in recv, on self.websocket or on a replaced socket
Receiving == {t \in 1..Len(tasks) : tasks[t] \in {"running", "stale"}}
Alive == {t \in 1..Len(tasks) : ~Done(tasks[t])}

\* a call starts with fresh local variables; what the last call left is
\* kept until then
FreshLocals ==
    /\ elapsed' = 0
    /\ timeout' = 0
    /\ initial_count' = 0
    /\ last_count' = 0
    /\ displayed' = <<>>
    /\ in_window' = FALSE
    /\ command_data' = <<>>
    /\ sent' = 0
    /\ reclose' = FALSE
    /\ entered' = <<>>

----------------------------------------------------------------------------
(* connect and wait_for_device_discovery *)

DiscoveryLoopCondition_Inclusive(now) == now <= DiscoveryTimeout * TicksPerSecond

\* while (asyncio.get_event_loop().time() - start_time) < timeout
DiscoveryLoopCondition(now) == now < DiscoveryTimeout * TicksPerSecond

DiscoveryPoll_NoBreak(now) ==
    LET r == DiscoveryScan(message_history, devices) IN
    /\ devices' = r.devices
    /\ IF r.raised
       THEN pc' = "idle" /\ result' = <<"connect", "True:exception">> /\ elapsed' = 0
       ELSE pc' = "disc_sleep" /\ result' = <<"connect", "pending">> /\ elapsed' = now

\* one pass of wait_for_device_discovery's while loop, up to its sleep: scan
\* the history, break when a device is known, return on an exception;
\* connect then returns True
DiscoveryPoll(now) ==
    LET r == DiscoveryScan(message_history, devices) IN
    /\ devices' = r.devices
    /\ IF r.raised
       THEN pc' = "idle" /\ result' = <<"connect", "True:exception">> /\ elapsed' = 0
       ELSE IF r.devices # <<>>
       THEN pc' = "idle" /\ result' = <<"connect", "True:found">> /\ elapsed' = 0
       ELSE pc' = "disc_sleep" /\ result' = <<"connect", "pending">> /\ elapsed' = now

\* connect(): up to await websockets.connect(uri)
Connect ==
    /\ pc = "idle"
    /\ Len(tasks) < MaxConnects
    /\ pc' = "connecting"
    /\ result' = <<"connect", "pending">>
    /\ FreshLocals
    /\ UNCHANGED <<sessionVars, temperature_unit, auxVars>>

ConnectFail_StartsListener ==
    /\ pc = "connecting"
    /\ pc' = "idle"
    /\ result' = <<"connect", "False">>
    /\ tasks' = Append(tasks, "running")
    /\ listener_task' = Len(tasks) + 1
    /\ UNCHANGED <<websocket, devices, selected_device, device_type,
                   message_history, elapsed, timeout, initial_count, last_count,
                   displayed, in_window, command_data, sent, reclose, entered,
                   temperature_unit, auxVars>>

\* websockets.connect raises: connect prints and returns False
ConnectFail ==
    /\ pc = "connecting"
    /\ pc' = "idle"
    /\ result' = <<"connect", "False">>
    /\ UNCHANGED <<sessionVars, elapsed, timeout, initial_count, last_count,
                   displayed, in_window, command_data, sent, reclose, entered,
                   temperature_unit, auxVars>>

\* the tasks after self.websocket is assigned a new socket: a task suspended
\* in recv stays suspended on the socket it called recv on
Replaced(ts) ==
    [t \in DOMAIN ts |-> IF ts[t] = "running" THEN "stale" ELSE ts[t]]

\* websockets.connect returns: the socket is stored, the listener task is
\* created, and wait_for_device_discovery runs up to its first sleep
ConnectOpen ==
    /\ pc = "connecting"
    /\ websocket' = "open"
    /\ tasks' = Append(Replaced(tasks), "running")
    /\ listener_task' = Len(tasks) + 1
    /\ DiscoveryPoll(0)
    /\ UNCHANGED <<selected_device, device_type, message_history, timeout,
                   initial_count, last_count, displayed, in_window,
                   command_data, sent, reclose, entered, temperature_unit, auxVars>>

\* asyncio.sleep(0.1) of wait_for_device_discovery returns: the loop
\* condition is tested, and the next pass runs or connect returns True
DiscoveryWake ==
    /\ pc = "disc_sleep"
    /\ IF DiscoveryLoopCondition(elapsed + 1)
       THEN DiscoveryPoll(elapsed + 1)
       ELSE /\ pc' = "idle"
            /\ result' = <<"connect", "True:timeout">>
            /\ elapsed' = 0
            /\ devices' = devices
    /\ UNCHANGED <<websocket, selected_device, device_type, message_history,
                   listener_task, tasks, timeout, initial_count, last_count,
                   displayed, in_window, command_data, sent, reclose, entered,
                   temperature_unit, auxVars>>

SelectDevice_LastDiscovered ==
    /\ pc = "idle"
    /\ IF devices = <<>>
       THEN /\ result' = <<"select", "False">>
            /\ UNCHANGED <<selected_device, device_type>>
       ELSE /\ selected_device' = <<devices[Len(devices)]>>
            /\ device_type' = devices[Len(devices)].type
            /\ result' = <<"select", "True">>
    /\ FreshLocals
    /\ UNCHANGED <<websocket, devices, message_history, listener_task, tasks,
                   pc, temperature_unit, auxVars>>

\* select_device(): device_index = 0
SelectDevice ==
    /\ pc = "idle"
    /\ IF devices = <<>>
       THEN /\ result' = <<"select", "False">>
            /\ UNCHANGED <<selected_device, device_type>>
       ELSE /\ selected_device' = <<devices[1]>>
            /\ device_type' = devices[1].type
            /\ result' = <<"select", "True">>
    /\ FreshLocals
    /\ UNCHANGED <<websocket, devices, message_history, listener_task, tasks,
                   pc, temperature_unit, auxVars>>

----------------------------------------------------------------------------
(* send_command_and_wait_for_response *)

AfterSend_WhateverReturned(operation, value) ==
    IF operation = "set_temperature_unit"
    THEN command_data.unit
    ELSE temperature_unit

\* what the operation that called the send does with the value returned:
\* set_temperature_unit stores the unit when the value is True, every other
\* caller does nothing
AfterSend(operation, value) ==
    IF operation = "set_temperature_unit" /\ value = "True"
    THEN command_data.unit
    ELSE temperature_unit

\* the call returns: its timeout and clock are gone with it
SendReturn(value, shown) ==
    /\ pc' = "idle"
    /\ displayed' = shown
    /\ result' = <<result[1], value>>
    /\ elapsed' = 0
    /\ timeout' = 0
    /\ temperature_unit' = AfterSend(result[1], value)

\* one pass of the polling loop, up to its sleep
SendPoll(now) ==
    LET r == ScanNewMessages(message_history, initial_count) IN
    CASE r.outcome = "match" -> SendReturn("True", <<r.index>>)
      [] r.outcome = "raise" -> SendReturn("False:exception", <<>>)
      [] OTHER -> /\ pc' = "send_sleep"
                  /\ displayed' = displayed
                  /\ result' = <<result[1], "pending">>
                  /\ elapsed' = now
                  /\ timeout' = timeout
                  /\ temperature_unit' = temperature_unit

\* the call made by an operation, up to await self.websocket.send(...);
\* without a socket the attribute access raises at once
SendCall(operation, cmd, T) ==
    /\ initial_count' = Len(message_history)
    /\ elapsed' = 0
    /\ in_window' = FALSE
    /\ last_count' = 0
    /\ displayed' = <<>>
    /\ command_data' = cmd
    /\ sent' = 0
    /\ reclose' = FALSE
    /\ IF websocket = "none"
       THEN pc' = "idle" /\ result' = <<operation, "False:exception">> /\ timeout' = 0
       ELSE pc' = "sending" /\ result' = <<operation, "pending">> /\ timeout' = T

\* Command.stop(device_id), as far as the correlator is concerned
StopCommand == [command |-> "CMD_APO_STOP"]

\* a direct call of send_command_and_wait_for_response
SendBegin(T) ==
    /\ pc = "idle"
    /\ SendCall("send", StopCommand, T)
    /\ entered' = <<>>
    /\ UNCHANGED <<sessionVars, temperature_unit, auxVars>>

SendDone_LogsCommand ==
    /\ pc = "sending"
    /\ IF websocket = "open"
       THEN SendPoll(0) /\ sent' = sent + 1
       ELSE SendReturn("False:exception", <<>>) /\ sent' = sent
    /\ message_history' = IF websocket = "open" /\ Len(message_history) < MaxFrames
                          THEN Append(message_history, Entry(F_cmd_state))
                          ELSE message_history
    /\ UNCHANGED <<websocket, devices, selected_device, device_type,
                   listener_task, tasks, initial_count, last_count,
                   in_window, command_data, reclose, entered, auxVars>>

SendDone_PollsAfterFailure ==
    /\ pc = "sending"
    /\ SendPoll(0)
    /\ sent' = IF websocket = "open" THEN sent + 1 ELSE sent
    /\ UNCHANGED <<sessionVars, initial_count, last_count,
                   in_window, command_data, reclose, entered, auxVars>>

\* the send returns (the first pass of the loop follows at once) or raises
\* because the connection is closed
SendDone ==
    /\ pc = "sending"
    /\ IF websocket = "open"
       THEN SendPoll(0) /\ sent' = sent + 1
       ELSE SendReturn("False:exception", <<>>) /\ sent' = sent
    /\ UNCHANGED <<sessionVars, initial_count, last_count,
                   in_window, command_data, reclose, entered, auxVars>>

SendWake_Resends ==
    /\ pc = "send_sleep"
    /\ IF elapsed + 1 < timeout
       THEN SendPoll(elapsed + 1) /\ sent' = sent + 1
       ELSE SendReturn("False:timeout", <<>>) /\ sent' = sent
    /\ UNCHANGED <<sessionVars, initial_count, last_count,
                   in_window, command_data, reclose, entered, auxVars>>

\* asyncio.sleep(0.1) returns: the loop condition is tested, and the next
\* pass runs or the timeout is reported
SendWake ==
    /\ pc = "send_sleep"
    /\ IF elapsed + 1 < timeout
       THEN SendPoll(elapsed + 1)
       ELSE SendReturn("False:timeout", <<>>)
    /\ UNCHANGED <<sessionVars, initial_count, last_count,
                   in_window, command_data, sent, reclose, entered, auxVars>>

----------------------------------------------------------------------------
(* close *)

\* after the listener part of close: await self.websocket.close() if there
\* is a socket, else close returns
CloseSocketOrReturn ==
    IF websocket # "none"
    THEN pc' = "close_sock" /\ result' = <<"close", "pending">>
    ELSE pc' = "idle" /\ result' = <<"close", "None">>

\* the last call was a close, and it has returned
AfterClose == result[1] = "close" /\ result[2] # "pending"

CloseBegin_NoDoneCheck ==
    /\ pc = "idle"
    /\ IF listener_task # 0
       THEN /\ tasks' = [tasks EXCEPT ![listener_task] = "cancel_requested"]
            /\ pc' = "close_wait"
            /\ result' = <<"close", "pending">>
       ELSE /\ tasks' = tasks
            /\ CloseSocketOrReturn
    /\ elapsed' = 0
    /\ timeout' = 0
    /\ initial_count' = 0
    /\ last_count' = 0
    /\ displayed' = <<>>
    /\ in_window' = FALSE
    /\ command_data' = <<>>
    /\ sent' = 0
    /\ reclose' = AfterClose
    /\ entered' = <<>>
    /\ UNCHANGED <<websocket, devices, selected_device, device_type,
                   message_history, listener_task, temperature_unit, auxVars>>

\* close() up to its first await: cancel the listener task unless it is
\* done, and wait for it
CloseCall ==
    /\ IF listener_task # 0 /\ ~Done(tasks[listener_task])
       THEN /\ tasks' = [tasks EXCEPT ![listener_task] = "cancel_requested"]
            /\ pc' = "close_wait"
            /\ result' = <<"close", "pending">>
       ELSE /\ tasks' = tasks
            /\ CloseSocketOrReturn
    /\ elapsed' = 0
    /\ timeout' = 0
    /\ initial_count' = 0
    /\ last_count' = 0
    /\ displayed' = <<>>
    /\ in_window' = FALSE
    /\ command_data' = <<>>
    /\ sent' = 0
    /\ reclose' = AfterClose
    /\ entered' = <<>>
    /\ UNCHANGED <<websocket, devices, selected_device, device_type,
                   message_history, listener_task, temperature_unit>>

\* close() called by the caller's task
CloseBegin ==
    /\ pc = "idle"
    /\ CloseCall
    /\ UNCHANGED auxVars

\* asyncio.wait_for(self.listener_task, timeout=2.0) ends with the task:
\* CancelledError is caught
CloseWaitDone ==
    /\ pc = "close_wait"
    /\ Done(tasks[listener_task])
    /\ CloseSocketOrReturn
    /\ UNCHANGED <<sessionVars, elapsed, timeout, initial_count, last_count,
                   displayed, in_window, command_data, sent, reclose, entered,
                   temperature_unit, auxVars>>

CloseWaitTimeout_Returns ==
    /\ pc = "close_wait"
    /\ ~Done(tasks[listener_task])
    /\ pc' = "idle"
    /\ result' = <<"close", "None">>
    /\ UNCHANGED <<sessionVars, elapsed, timeout, initial_count, last_count,
                   displayed, in_window, command_data, sent, reclose, entered,
                   temperature_unit, auxVars>>

\* the 2 seconds of asyncio.wait_for elapse before the task has ended:
\* TimeoutError is caught
CloseWaitTimeout ==
    /\ pc = "close_wait"
    /\ ~Done(tasks[listener_task])
    /\ CloseSocketOrReturn
    /\ UNCHANGED <<sessionVars, elapsed, timeout, initial_count, last_count,
                   displayed, in_window, command_data, sent, reclose, entered,
                   temperature_unit, auxVars>>

\* self.websocket.close() returns, or raises an exception that close prints;
\* either way close returns.  A close that raised may have left the
\* connection as it was.
CloseSocket(raised) ==
    /\ pc = "close_sock"
    /\ IF raised
       THEN /\ websocket' \in {websocket, "closed"}
            /\ result' = <<"close", "None:swallowed">>
       ELSE /\ websocket' = "closed"
            /\ result' = <<"close", "None:closed">>
    /\ pc' = "idle"
    /\ UNCHANGED <<devices, selected_device, device_type, message_history,
                   listener_task, tasks, elapsed, timeout, initial_count,
                   last_count, displayed, in_window, command_data, sent,
                   reclose, entered, temperature_unit, auxVars>>

----------------------------------------------------------------------------
(* show_message_stream *)

\* up to await input_task: last_count is taken and the monitor task started
StreamOpen ==
    /\ pc = "idle"
    /\ pc' = "stream"
    /\ result' = <<"stream", "pending">>
    /\ last_count' = Len(message_history)
    /\ displayed' = <<>>
    /\ elapsed' = 0
    /\ timeout' = 0
    /\ initial_count' = 0
    /\ in_window' = FALSE
    /\ command_data' = <<>>
    /\ sent' = 0
    /\ reclose' = FALSE
    /\ entered' = <<>>
    /\ UNCHANGED <<sessionVars, temperature_unit, auxVars>>

\* the indices that follow n up to m, in order
IndicesAfter(n, m) == [i \in 1..(m - n) |-> n + i]

\* the new messages on which display_formatted_message raises: data.get
\* needs a dict
Undisplayable ==
    {i \in (last_count + 1)..Len(message_history) :
        ~IsDict(message_history[i].data)}

\* the least element of a non-empty set of indices
First(indices) == CHOOSE i \in indices : \A j \in indices : i <= j

\* one pass of monitor_messages that finds new messages: they are displayed
\* in order and last_count is moved, or display_formatted_message raises on
\* one of them and the monitor task ends, last_count unmoved, while
\* show_message_stream still awaits the input
MonitorPoll ==
    /\ pc = "stream"
    /\ Len(message_history) > last_count
    /\ IF Undisplayable = {}
       THEN /\ displayed' = displayed \o IndicesAfter(last_count, Len(message_history))
            /\ last_count' = Len(message_history)
            /\ pc' = "stream"
       ELSE /\ displayed' = displayed \o IndicesAfter(last_count, First(Undisplayable) - 1)
            /\ last_count' = last_count
            /\ pc' = "stream_monitor_raised"
    /\ UNCHANGED <<sessionVars, elapsed, timeout, initial_count, result,
                   in_window, command_data, sent, reclose, entered, temperature_unit, auxVars>>

\* the user presses Enter: the monitor task is cancelled and awaited; the
\* exception of a monitor task that had ended is raised by the await
StreamClose ==
    /\ pc \in {"stream", "stream_monitor_raised"}
    /\ pc' = "idle"
    /\ result' = IF pc = "stream" THEN <<"stream", "None">>
                 ELSE <<"stream", "raised:AttributeError">>
    /\ last_count' = 0
    /\ displayed' = <<>>
    /\ UNCHANGED <<sessionVars, elapsed, timeout, initial_count, in_window,
                   command_data, sent, reclose, entered, temperature_unit, auxVars>>

----------------------------------------------------------------------------
(* The operations of the menu (src/controller.py): set_temperature_unit and *)
(* the start-cook operations.  Temperatures are whole degrees; a Celsius   *)
(* value on the wire is kept as nine times its value, so that              *)
(* (temp - 32) * 5/9 is exact.                                             *)

\* an operation returns, or raises, without having called the send
CallReturns(operation, value) ==
    /\ pc' = "idle"
    /\ result' = <<operation, value>>
    /\ elapsed' = 0
    /\ timeout' = 0
    /\ initial_count' = 0
    /\ last_count' = 0
    /\ displayed' = <<>>
    /\ in_window' = FALSE
    /\ command_data' = <<>>
    /\ sent' = 0
    /\ reclose' = FALSE

\* set_temperature_unit: the unit entered, upper-cased and stripped
SetTemperatureUnit(unit) ==
    /\ pc = "idle"
    /\ entered' = [unit |-> unit]
    /\ IF unit \notin {"C", "F"}
       THEN CallReturns("set_temperature_unit", "None:rejected")
       ELSE IF selected_device = <<>>
       THEN CallReturns("set_temperature_unit", "raised:TypeError")
       ELSE SendCall("set_temperature_unit",
                     [command |-> IF device_type = "APC"
                                  THEN "CMD_APC_SET_TEMPERATURE_UNIT"
                                  ELSE "CMD_APO_SET_TEMPERATURE_UNIT",
                      id |-> selected_device[1].id,
                      unit |-> unit],
                     DefaultTimeout * TicksPerSecond)
    /\ UNCHANGED <<sessionVars, temperature_unit, auxVars>>

\* the two AnovaController classes of the repository
Modules == {"client", "controller"}

\* the command stop_device builds: in src/controller.py by self.device_type,
\* with the cooker addressed by "cookerId" and the oven by "id"; in
\* src/client.py commands.Command.stop(self.selected_device["id"]), whose
\* command is Commands.STOP
StopDeviceCommand(module) ==
    IF module = "controller" /\ device_type = "APC"
    THEN [command |-> "CMD_APC_STOP", id |-> selected_device[1].id]
    ELSE [command |-> "CMD_APO_STOP", id |-> selected_device[1].id]

\* stop_device of either class: the command reads self.selected_device,
\* then the send with the default timeout
StopDevice(module) ==
    /\ pc = "idle"
    /\ entered' = [module |-> module]
    /\ IF selected_device = <<>>
       THEN CallReturns("stop_device", "raised:TypeError")
       ELSE SendCall("stop_device", StopDeviceCommand(module),
                     DefaultTimeout * TicksPerSecond)
    /\ UNCHANGED <<sessionVars, temperature_unit, auxVars>>

CookOps == {"start_sous_vide_cook",
            "start_oven_sous_vide", "start_oven_sous_vide_v1",
            "start_oven_roast", "start_oven_roast_v1",
            "start_oven_steam", "start_oven_steam_v1"}

\* the operations for ovens of the first generation
FirstGeneration(op) ==
    op \in {"start_oven_sous_vide_v1", "start_oven_roast_v1", "start_oven_steam_v1"}

\* the keys by which a stage of the command tells its payload shape: "do"
\* and "exit" in the second generation, "stepType" and
\* "stageTransitionType" in the first; the cooker's command has no stage
StageKeys(op) ==
    IF op = "start_sous_vide_cook" THEN {}
    ELSE IF FirstGeneration(op) THEN {"stepType", "stageTransitionType"}
    ELSE {"do", "exit"}

\* they prompt for Fahrenheit whatever self.temperature_unit is
InputUnit(op) == IF FirstGeneration(op) THEN "F" ELSE temperature_unit

\* the operations that prompt for a humidity
AsksHumidity(op) == op \in {"start_oven_steam", "start_oven_steam_v1"}

\* max_temp = 95 if temp_unit == "C" else 203 (and the like in each
\* operation; the "max 212", "max 482" of the prompts of the first generation)
max_temp(op, unit) ==
    CASE op = "start_sous_vide_cook" -> IF unit = "C" THEN 95 ELSE 203
      [] op \in {"start_oven_sous_vide", "start_oven_sous_vide_v1"} ->
            IF unit = "C" THEN 100 ELSE 212
      [] OTHER -> IF unit = "C" THEN 250 ELSE 482

TemperatureTooHigh_Inclusive(op, temp) ==
    LET unit == InputUnit(op) IN
    CASE op = "start_sous_vide_cook" ->
            (unit = "C" /\ temp >= 95) \/ (unit = "F" /\ temp >= 203)
      [] op \in {"start_oven_sous_vide", "start_oven_sous_vide_v1"} ->
            (unit = "C" /\ temp >= 100) \/ (unit = "F" /\ temp >= 212)
      [] OTHER ->
            (unit = "C" /\ temp >= 250) \/ (unit = "F" /\ temp >= 482)

\* if temp_unit == "C" and temp > 95: ... elif temp_unit == "F" and temp > 203
\* (and the like in each operation; if temp_f > 212 in those of the first
\* generation)
TemperatureTooHigh(op, temp) ==
    LET unit == InputUnit(op) IN
    CASE op = "start_sous_vide_cook" ->
            (unit = "C" /\ temp > 95) \/ (unit = "F" /\ temp > 203)
      [] op \in {"start_oven_sous_vide", "start_oven_sous_vide_v1"} ->
            (unit = "C" /\ temp > 100) \/ (unit = "F" /\ temp > 212)
      [] OTHER ->
            (unit = "C" /\ temp > 250) \/ (unit = "F" /\ temp > 482)

HumidityOutOfRange_NoLowerCheck(humidity) == humidity > 100

HumidityOutOfRange_Exclusive(humidity) == humidity <= 0 \/ humidity >= 100

\* if humidity < 0 or humidity > 100
HumidityOutOfRange(humidity) == humidity < 0 \/ humidity > 100

ToCelsius9_NoOffset(temp, unit) ==
    IF unit = "C" THEN 9 * temp ELSE temp * 5

\* temp_celsius = temp if temp_unit == "C" else (temp - 32) * 5/9, times nine
ToCelsius9(temp, unit) ==
    IF unit = "C" THEN 9 * temp ELSE (temp - 32) * 5

\* the command dict of a start-cook operation, by the values that depend on
\* the input: the cooker's command carries "unit": "C", an oven's stage a
\* temperature bulb with a "celsius" setpoint (and the "fahrenheit" entered,
\* in the first generation) and, when it steams, a humidity setpoint
CookCommand(op, temp, humidity) ==
    [command |-> IF op = "start_sous_vide_cook" THEN "CMD_APC_START" ELSE "CMD_APO_START",
     id |-> selected_device[1].id,
     stage_keys |-> StageKeys(op),
     celsius9 |-> ToCelsius9(temp, InputUnit(op)),
     unit |-> IF op = "start_sous_vide_cook" THEN "C" ELSE "absent",
     fahrenheit |-> IF FirstGeneration(op) THEN <<temp>> ELSE <<>>,
     mode |-> CASE op = "start_sous_vide_cook" -> "absent"
                [] op \in {"start_oven_sous_vide", "start_oven_sous_vide_v1"} -> "wet"
                [] OTHER -> "dry",
     humidity |-> CASE op = "start_sous_vide_cook" -> <<>>
                    [] op \in {"start_oven_sous_vide", "start_oven_sous_vide_v1"} -> <<100>>
                    [] AsksHumidity(op) -> <<humidity>>
                    [] OTHER -> <<>>]

\* a start-cook operation with the numbers entered at its prompts: the
\* checks, then the command dict (which reads self.selected_device), then
\* the send with the default timeout
StartCook(op, temp, humidity) ==
    /\ pc = "idle"
    /\ entered' = [temp |-> temp, humidity |-> humidity]
    /\ IF TemperatureTooHigh(op, temp)
          \/ (AsksHumidity(op) /\ HumidityOutOfRange(humidity))
       THEN CallReturns(op, "None:rejected")
       ELSE IF selected_device = <<>>
       THEN CallReturns(op, "raised:TypeError")
       ELSE SendCall(op, CookCommand(op, temp, humidity),
                     DefaultTimeout * TicksPerSecond)
    /\ UNCHANGED <<sessionVars, temperature_unit, auxVars>>

SecondGeneration_AnyRecordedType(device) == device.device_type # "unknown"

\* if self.selected_device["device_type"] == "oven_v2"
SecondGeneration(device) == device.device_type = "oven_v2"

\* the operation handle_menu_choice calls on a choice; for an oven's start
\* it reads self.selected_device, which raises TypeError when it is None
MenuOperation(choice) ==
    IF device_type = "APC"
    THEN CASE choice = "1" -> "show_message_stream"
           [] choice = "2" -> "start_sous_vide_cook"
           [] choice = "3" -> "stop_device"
           [] choice = "4" -> "set_temperature_unit"
           [] choice = "5" -> "export_telemetry"
           [] choice = "0" -> "exit"
           [] OTHER -> "invalid"
    ELSE CASE choice = "1" -> "show_message_stream"
           [] choice \in {"2", "3", "4"} ->
                IF selected_device = <<>> THEN "raised:TypeError"
                ELSE IF SecondGeneration(selected_device[1])
                THEN CASE choice = "2" -> "start_oven_sous_vide"
                       [] choice = "3" -> "start_oven_roast"
                       [] OTHER -> "start_oven_steam"
                ELSE CASE choice = "2" -> "start_oven_sous_vide_v1"
                       [] choice = "3" -> "start_oven_roast_v1"
                       [] OTHER -> "start_oven_steam_v1"
           [] choice = "5" -> "stop_device"
           [] choice = "6" -> "set_temperature_unit"
           [] choice = "7" -> "export_telemetry"
           [] choice = "0" -> "exit"
           [] OTHER -> "invalid"

\* the choices entered at the menu prompt
MenuChoices == {"0", "1", "2", "3", "4", "5", "6", "7", "9"}

\* handle_menu_choice(choice) with the inputs the operation it calls prompts
\* for, up to the first await of that operation or to its return; the
\* message stream and the telemetry export are not followed here
HandleMenuChoice(choice, temp, humidity, unit) ==
    LET op == MenuOperation(choice) IN
    /\ pc = "idle"
    /\ op \notin {"show_message_stream", "export_telemetry"}
    /\ CASE op \in CookOps -> StartCook(op, temp, humidity)
         [] op = "stop_device" -> StopDevice("controller")
         [] op = "set_temperature_unit" -> SetTemperatureUnit(unit)
         [] op = "exit" ->
               /\ CallReturns("handle_menu_choice", "False")
               /\ entered' = [choice |-> choice]
               /\ UNCHANGED <<sessionVars, temperature_unit, auxVars>>
         [] op = "invalid" ->
               /\ CallReturns("handle_menu_choice", "True")
               /\ entered' = [choice |-> choice]
               /\ UNCHANGED <<sessionVars, temperature_unit, auxVars>>
         [] OTHER ->
               /\ CallReturns("handle_menu_choice", op)
               /\ entered' = [choice |-> choice]
               /\ UNCHANGED <<sessionVars, temperature_unit, auxVars>>

----------------------------------------------------------------------------
(* The payload builder (src/models.py, src/commands.py) as main uses it    *)
(* (src/main.py): a Stage from a temperature bulb and heating elements, a  *)
(* Cook, Command.start, and the send.  A setpoint is <<>> (None) or <<t>>. *)

\* TempBulb(mode=..., dry=..., wet=...), each setpoint given being a
\* TempSetPoint(setpoint=TempSetPoint.SetPoint(celsius=t))
TempBulb(mode, dry, wet) == [mode |-> mode, dry |-> dry, wet |-> wet]

\* TempBulb.wet_bulb(temp), TempBulb.dry_bulb(temp)
wet_bulb(temp) == TempBulb("wet", <<>>, <<temp>>)
dry_bulb(temp) == TempBulb("dry", <<temp>>, <<>>)

\* HeatingElements(top=STATE(on=...), bottom=..., rear=...)
HeatingElements(top, bottom, rear) == [top |-> top, bottom |-> bottom, rear |-> rear]

\* HeatingElements.is_bottom_only
is_bottom_only(elements) == elements.bottom /\ ~elements.top /\ ~elements.rear

\* TempSetPoint.SetPoint: celsius: float = Field(ge=25, le=250); a setpoint
\* that is not given needs none
SetPointValid(setpoint) ==
    setpoint = <<>> \/ (setpoint[1] >= 25 /\ setpoint[1] <= 250)

TempBulbCheck_NoWetRange(bulb) ==
    IF bulb.mode = "dry" /\ (bulb.wet # <<>> \/ bulb.dry = <<>>) THEN "ValueError"
    ELSE IF bulb.mode = "wet" /\ (bulb.dry # <<>> \/ bulb.wet = <<>>) THEN "ValueError"
    ELSE "ok"

\* TempBulb.check_mutual_exclusivity, which pydantic applies to the bulb
\* when it validates the Stage that holds it
TempBulbCheck(bulb) ==
    IF bulb.mode = "dry" /\ (bulb.wet # <<>> \/ bulb.dry = <<>>) THEN "ValueError"
    ELSE IF bulb.mode = "wet" /\ (bulb.dry # <<>> \/ bulb.wet = <<>>) THEN "ValueError"
    ELSE IF bulb.mode = "wet" /\ (bulb.wet[1] > 100 \/ bulb.wet[1] < 25) THEN "ValueError"
    ELSE "ok"

StageCheck_Exclusive(bulb, elements) ==
    IF ~is_bottom_only(elements) THEN "ok"
    ELSE IF bulb.dry = <<>> THEN "AttributeError"
    ELSE IF bulb.dry[1] >= 180 THEN "ValueError"
    ELSE "ok"

\* Stage.check_mutual_exclusivity: self.temperatureBulbs.dry is None for a
\* wet bulb, and None has no attribute setpoint
StageCheck(bulb, elements) ==
    IF ~is_bottom_only(elements) THEN "ok"
    ELSE IF bulb.dry = <<>> THEN "AttributeError"
    ELSE IF bulb.dry[1] > 180 THEN "ValueError"
    ELSE "ok"

\* the construction of the bulb and of the Stage: "ok" or the exception
\* raised.  The setpoints are validated when they are built; pydantic
\* reports a ValueError of a validator as a ValidationError, runs the
\* Stage's own check only when every field is valid, and lets any other
\* exception through.
BuildStage(bulb, elements) ==
    IF ~SetPointValid(bulb.dry) \/ ~SetPointValid(bulb.wet) THEN "ValidationError"
    ELSE IF TempBulbCheck(bulb) = "ValueError" THEN "ValidationError"
    ELSE IF StageCheck(bulb, elements) = "ValueError" THEN "ValidationError"
    ELSE StageCheck(bulb, elements)

\* Command.start(device_id, Cook(stages=[stage])), by what depends on the
\* stage's inputs
StartCommand(bulb, elements) ==
    [command |-> "CMD_APO_START",
     id |-> selected_device[1].id,
     bulb |-> bulb,
     elements |-> elements]

\* main, after select_device returned True: the cook is built from a stage,
\* then the command, then the send; main prints an exception and returns
BuildStart(bulb, elements) ==
    /\ pc = "idle"
    /\ selected_device # <<>>
    /\ entered' = [bulb |-> bulb, elements |-> elements]
    /\ IF BuildStage(bulb, elements) # "ok"
       THEN CallReturns("Command.start", "raised:" \o BuildStage(bulb, elements))
       ELSE SendCall("Command.start", StartCommand(bulb, elements),
                     DefaultTimeout * TicksPerSecond)
    /\ UNCHANGED <<sessionVars, temperature_unit, auxVars>>

----------------------------------------------------------------------------
(* continuous_message_listener *)

\* a frame appended while a send sleeps before its last wake-up arrived
\* after the send and strictly before the timeout elapsed
ArrivesInWindow(frame) ==
    /\ pc = "send_sleep"
    /\ elapsed < timeout
    /\ IsDict(frame)
    /\ StartsWith(CommandOf(frame), S_RESPONSE)

\* self.websocket.recv() returns a frame: json.loads, append, then
\* process_device_discovery; an exception of either ends the task
ListenerFrame(t, frame) ==
    /\ \/ tasks[t] = "running" /\ websocket = "open"
       \/ tasks[t] = "stale"
    /\ Len(message_history) < MaxFrames
    /\ IF JsonLoadsRaises(frame)
       THEN /\ tasks' = [tasks EXCEPT ![t] = "crashed"]
            /\ UNCHANGED <<message_history, devices, in_window>>
       ELSE LET r == ProcessDeviceDiscovery(frame, devices) IN
            /\ message_history' = AppendMessage(message_history, Entry(frame))
            /\ devices' = r.devices
            /\ tasks' = [tasks EXCEPT ![t] = IF r.raised THEN "crashed" ELSE "running"]
            /\ in_window' = (in_window \/ ArrivesInWindow(frame))
    /\ UNCHANGED <<websocket, selected_device, device_type, listener_task, pc,
                   elapsed, timeout, initial_count, result, last_count,
                   displayed, command_data, sent, reclose, entered, temperature_unit, auxVars>>

ListenerTimeout_Exits(t) ==
    /\ tasks[t] = "running"
    /\ Len(recv_timeouts) < MaxRecvTimeouts
    /\ recv_timeouts' = Append(recv_timeouts, Len(message_history))
    /\ tasks' = [tasks EXCEPT ![t] = "recv_raised"]
    /\ UNCHANGED <<websocket, devices, selected_device, device_type,
                   message_history, listener_task, callerVars,
                   temperature_unit, second, previous, menu>>

\* asyncio.wait_for(self.websocket.recv(), timeout=30.0) raises
\* TimeoutError: the listener prints and continues with the next recv
ListenerTimeout(t) ==
    /\ tasks[t] = "running"
    /\ Len(recv_timeouts) < MaxRecvTimeouts
    /\ recv_timeouts' = Append(recv_timeouts, Len(message_history))
    /\ UNCHANGED <<sessionVars, callerVars, temperature_unit, second, previous, menu>>

\* the wait_for of a task suspended on a replaced socket raises
\* TimeoutError: the task continues with a recv on self.websocket
ListenerStaleTimeout(t) ==
    /\ tasks[t] = "stale"
    /\ tasks' = [tasks EXCEPT ![t] = "running"]
    /\ UNCHANGED <<websocket, devices, selected_device, device_type,
                   message_history, listener_task, callerVars,
                   temperature_unit, auxVars>>

\* recv raises ConnectionClosed (on self.websocket once it is closed; on a
\* replaced socket whenever its server closes it): the task ends
ListenerClosed(t) ==
    /\ \/ tasks[t] = "running" /\ websocket = "closed"
       \/ tasks[t] = "stale"
    /\ tasks' = [tasks EXCEPT ![t] = "recv_raised"]
    /\ UNCHANGED <<websocket, devices, selected_device, device_type,
                   message_history, listener_task, callerVars,
                   temperature_unit, auxVars>>

\* recv raises another exception (the websockets library refuses a second
\* recv on a socket another task is waiting on): the task ends
ListenerRecvRaises(t) ==
    /\ tasks[t] = "running"
    /\ Cardinality(Running) > 1
    /\ tasks' = [tasks EXCEPT ![t] = "recv_raised"]
    /\ UNCHANGED <<websocket, devices, selected_device, device_type,
                   message_history, listener_task, callerVars,
                   temperature_unit, auxVars>>

\* the task is resumed after cancel(): CancelledError ends it
ListenerCancelled(t) ==
    /\ tasks[t] = "cancel_requested"
    /\ tasks' = [tasks EXCEPT ![t] = "cancelled"]
    /\ UNCHANGED <<websocket, devices, selected_device, device_type,
                   message_history, listener_task, callerVars,
                   temperature_unit, auxVars>>

----------------------------------------------------------------------------
(* the transport *)

\* the server or the network closes the connection
TransportClose ==
    /\ websocket = "open"
    /\ websocket' = "closed"
    /\ UNCHANGED <<devices, selected_device, device_type, message_history,
                   listener_task, tasks, callerVars, temperature_unit, auxVars>>

----------------------------------------------------------------------------

CallerStep ==
    \/ Connect
    \/ ConnectFail
    \/ ConnectOpen
    \/ DiscoveryWake
    \/ SelectDevice
    \/ \E T \in 1..MaxTimeout : SendBegin(T)
    \/ SendDone
    \/ SendWake
    \/ CloseBegin
    \/ CloseWaitDone
    \/ CloseWaitTimeout
    \/ \E raised \in BOOLEAN : CloseSocket(raised)
    \/ StreamOpen
    \/ MonitorPoll
    \/ StreamClose

ListenerStep ==
    \E t \in 1..Len(tasks) :
        \/ \E frame \in Frames : ListenerFrame(t, frame)
        \/ ListenerStaleTimeout(t)
        \/ ListenerClosed(t)
        \/ ListenerRecvRaises(t)
        \/ ListenerCancelled(t)

Next ==
    \/ CallerStep
    \/ ListenerStep
    \/ TransportClose

Spec == Init /\ [][Next]_vars

\* The event loop runs every task that is ready: a sleep or a wait_for whose
\* time has elapsed resumes its task, and a cancelled task is resumed with
\* CancelledError.  Nothing makes the user call an operation, and nothing
\* makes the transport deliver a frame or complete a connect, a send or a
\* close.
FairSpec ==
    /\ Spec
    /\ WF_vars(DiscoveryWake)
    /\ WF_vars(SendWake)
    /\ WF_vars(CloseWaitDone)
    /\ WF_vars(CloseWaitTimeout)
    /\ \A t \in 1..MaxConnects :
         WF_vars(t \in 1..Len(tasks) /\ ListenerCancelled(t))

----------------------------------------------------------------------------
(* The operations that build and send a command, on a session that is      *)
(* opened once and receives device lists and responses.                    *)

\* the numbers entered at a temperature prompt: the ceilings in both units
\* and their neighbours, and one value below every range
Temperatures == {-5, 95, 96, 100, 101, 203, 204, 212, 213, 250, 251, 482, 483}

\* the numbers entered at the humidity prompt of an operation that has one
Humidities(op) == IF AsksHumidity(op) THEN {-1, 0, 100, 101} ELSE {0}

\* the units entered at the prompt of set_temperature_unit
Units == {"C", "F", "K"}

\* setpoints of a temperature bulb: the limits of the ranges and their
\* neighbours
Setpoints == {24, 25, 100, 101, 150, 180, 181, 250, 251}

\* the bulbs main may build: by the factory methods, and by the constructor
\* with both setpoints, with none, or with the setpoint of the other mode
Bulbs ==
    {wet_bulb(t) : t \in Setpoints} \cup {dry_bulb(t) : t \in Setpoints}
    \cup {TempBulb(m, <<90>>, <<90>>) : m \in {"wet", "dry"}}
    \cup {TempBulb(m, <<>>, <<>>) : m \in {"wet", "dry"}}
    \cup {TempBulb("wet", <<90>>, <<>>), TempBulb("dry", <<>>, <<90>>)}

\* bottom_only, top_only, rear_only, top_and_rear, top_and_bottom
Elements ==
    {HeatingElements(FALSE, TRUE, FALSE), HeatingElements(TRUE, FALSE, FALSE),
     HeatingElements(FALSE, FALSE, TRUE), HeatingElements(TRUE, FALSE, TRUE),
     HeatingElements(TRUE, TRUE, FALSE)}

\* the frames of this session
CookFrames == {F_apc_list, F_apo_list, F_response}

CookNext ==
    \/ tasks = <<>> /\ Connect
    \/ ConnectFail
    \/ ConnectOpen
    \/ DiscoveryWake
    \/ SelectDevice
    \/ \E unit \in Units : SetTemperatureUnit(unit)
    \/ \E module \in Modules : StopDevice(module)
    \/ \E op \in CookOps : \E temp \in Temperatures :
         \E humidity \in Humidities(op) : StartCook(op, temp, humidity)
    \/ \E bulb \in Bulbs : \E elements \in Elements : BuildStart(bulb, elements)
    \/ SendDone
    \/ SendWake
    \/ \E t \in 1..Len(tasks) : \E frame \in CookFrames : ListenerFrame(t, frame)

CookSpec == Init /\ [][CookNext]_vars

----------------------------------------------------------------------------
(* The command builder (src/commands.py), applied to device ids and cooks. *)

\* Payload(id=..., type=..., payload=...); payload is <<>> (None, the
\* default) or <<cook>>
Payload(id, type, payload) == [id |-> id, type |-> type, payload |-> payload]

CommandStop_StartType(device_id) ==
    [command |-> "CMD_APO_STOP",
     payload |-> Payload(device_id, "CMD_APO_START", <<>>)]

\* Command.stop(device_id)
CommandStop(device_id) ==
    [command |-> "CMD_APO_STOP",
     payload |-> Payload(device_id, "CMD_APO_STOP", <<>>)]

\* Command.start(device_id, cook)
CommandStart(device_id, cook) ==
    [command |-> "CMD_APO_START",
     payload |-> Payload(device_id, "CMD_APO_START", <<cook>>)]

\* the device ids the builder is given
DeviceIds == {"a", "b", "c"}

\* the cooks the builder is given: Cook(stages=[stage]) of every stage that
\* validates
Cooks ==
    {cook \in [bulb : Bulbs, elements : Elements] :
        BuildStage(cook.bulb, cook.elements) = "ok"}

\* a call of Command.stop
BuildStop(device_id) ==
    /\ pc = "idle"
    /\ entered' = [device_id |-> device_id, cook |-> <<>>]
    /\ command_data' = CommandStop(device_id)
    /\ result' = <<"Command.stop", "built">>
    /\ UNCHANGED <<sessionVars, temperature_unit, pc, elapsed, timeout,
                   initial_count, last_count, displayed, in_window, sent,
                   reclose, auxVars>>

\* a call of Command.start
BuildStartCommand(device_id, cook) ==
    /\ pc = "idle"
    /\ entered' = [device_id |-> device_id, cook |-> <<cook>>]
    /\ command_data' = CommandStart(device_id, cook)
    /\ result' = <<"Command.start", "built">>
    /\ UNCHANGED <<sessionVars, temperature_unit, pc, elapsed, timeout,
                   initial_count, last_count, displayed, in_window, sent,
                   reclose, auxVars>>

BuilderNext ==
    \E device_id \in DeviceIds :
        \/ BuildStop(device_id)
        \/ \E cook \in Cooks : BuildStartCommand(device_id, cook)

BuilderSpec == Init /\ [][BuilderNext]_vars

----------------------------------------------------------------------------
(* The interactive menu, on a session that is opened once: every operation *)
(* is reached through handle_menu_choice.                                  *)

\* an oven "c" announced with the type of the first generation
D_c_oven == Descriptor(TRUE, "c", TRUE, "Oven 1", TRUE, "oven_v1")

F_apo_v2_list == ListFrame(S_EVENT_APO_WIFI_LIST, <<D_a_oven>>)
F_apo_v1_list == ListFrame(S_EVENT_APO_WIFI_LIST, <<D_c_oven>>)

MenuFrames == {F_apc_list, F_apo_list, F_apo_v2_list, F_apo_v1_list, F_response}

MenuNext ==
    \/ tasks = <<>> /\ Connect
    \/ ConnectFail
    \/ ConnectOpen
    \/ DiscoveryWake
    \/ SelectDevice
    \/ \E choice \in MenuChoices : \E temp \in Temperatures :
         \E humidity \in Humidities(MenuOperation(choice)) : \E unit \in Units :
            HandleMenuChoice(choice, temp, humidity, unit)
    \/ SendDone
    \/ SendWake
    \/ \E t \in 1..Len(tasks) : \E frame \in MenuFrames : ListenerFrame(t, frame)

MenuSpec == Init /\ [][MenuNext]_vars

----------------------------------------------------------------------------
(* export_telemetry, on a session that is opened once.  A date entered is  *)
(* given by whether its text has the form of three numbers joined by "-",  *)
(* and by the numbers.                                                     *)

Date(wellformed, year, month, day) ==
    [wellformed |-> wellformed, year |-> year, month |-> month, day |-> day]

IsLeap(year) == (year % 4 = 0 /\ year % 100 # 0) \/ year % 400 = 0

DaysInMonth(year, month) ==
    CASE month = 2 -> IF IsLeap(year) THEN 29 ELSE 28
      [] month \in {4, 6, 9, 11} -> 30
      [] OTHER -> 31

\* datetime.strptime(date, "%Y-%m-%d") returns: the text has the form and
\* names a day of the calendar; it raises ValueError otherwise
Parses(date) ==
    /\ date.wellformed
    /\ date.year \in 1..9999
    /\ date.month \in 1..12
    /\ date.day \in 1..DaysInMonth(date.year, date.month)

RECURSIVE DaysBefore(_, _)
\* the days of the year that precede the month
DaysBefore(year, month) ==
    IF month = 1 THEN 0
    ELSE DaysBefore(year, month - 1) + DaysInMonth(year, month - 1)

\* the days from 2000-01-01 to a date of the years 2000..2099
DayNumber(date) ==
    365 * (date.year - 2000) + (date.year - 2000 + 3) \div 4
    + DaysBefore(date.year, date.month) + (date.day - 1)

\* the day the program runs
Today == Date(TRUE, 2024, 6, 15)

\* the dates entered at the prompts: days within and beyond 14 days of each
\* other, a day more than 90 days past, a day no month has, a month no year
\* has, and a text of another form
Dates == {Date(TRUE, 2024, 6, 1), Date(TRUE, 2024, 6, 10), Date(TRUE, 2024, 2, 29),
          Date(TRUE, 2023, 2, 29), Date(TRUE, 2024, 13, 1), Date(FALSE, 0, 0, 0)}

ExportRejects_ChecksRange(start_date, end_date) ==
    \/ ~Parses(start_date)
    \/ ~Parses(end_date)
    \/ DayNumber(end_date) - DayNumber(start_date) > 14
    \/ DayNumber(end_date) < DayNumber(start_date)
    \/ DayNumber(Today) - DayNumber(start_date) > 90

\* the two strptime calls: ValueError of either is caught by export_telemetry
ExportRejects(start_date, end_date) ==
    ~Parses(start_date) \/ ~Parses(end_date)

\* export_telemetry with the dates entered: the checks, then the command
\* dict (which reads self.selected_device), then the send with timeout=30
ExportTelemetry(start_date, end_date) ==
    /\ pc = "idle"
    /\ entered' = [start_date |-> start_date, end_date |-> end_date]
    /\ IF ExportRejects(start_date, end_date)
       THEN CallReturns("export_telemetry", "None:rejected")
       ELSE IF selected_device = <<>>
       THEN CallReturns("export_telemetry", "raised:TypeError")
       ELSE SendCall("export_telemetry",
                     [command |-> "CMD_EXPORT_TELEMETRY",
                      deviceId |-> selected_device[1].id,
                      startTime |-> start_date,
                      endTime |-> end_date],
                     ExportTimeout * TicksPerSecond)
    /\ UNCHANGED <<sessionVars, temperature_unit, auxVars>>

ExportFrames == {F_apo_list, F_cmd_state, ObjectFrame(S_EVENT_EXPORT_READY)}

ExportNext ==
    \/ tasks = <<>> /\ Connect
    \/ ConnectFail
    \/ ConnectOpen
    \/ DiscoveryWake
    \/ SelectDevice
    \/ \E start_date \in Dates : \E end_date \in Dates :
         ExportTelemetry(start_date, end_date)
    \/ SendDone
    \/ SendWake
    \/ TransportClose
    \/ \E t \in 1..Len(tasks) :
         \/ \E frame \in ExportFrames : ListenerFrame(t, frame)
         \/ ListenerClosed(t)

ExportSpec == Init /\ [][ExportNext]_vars

----------------------------------------------------------------------------
(* run_interactive_menu, on a session that is opened at most once before   *)
(* it: the loop calls handle_menu_choice until that returns False or an    *)
(* exception reaches the loop, and its finally clause calls close.         *)

\* the exceptions with which an operation of the menu returns to the loop
RaisedValues == {"raised:TypeError", "raised:AttributeError"}

\* handle_menu_choice has returned False or raised, and the loop has not
\* yet run on: the break or the except clause, and the call of close in
\* the finally clause, follow with no await in between
Leaving ==
    /\ menu.at = "loop"
    /\ pc = "idle"
    /\ result = <<"handle_menu_choice", "False">> \/ result[2] \in RaisedValues

\* what makes the loop end when it ends now; at the prompt with nothing
\* returned or raised it is the user's interrupt
ExitCause ==
    IF result = <<"handle_menu_choice", "False">> THEN "choice"
    ELSE IF result[2] \in RaisedValues THEN "exception"
    ELSE "KeyboardInterrupt"

\* run_interactive_menu is called: up to the first prompt
MenuRun ==
    /\ pc = "idle"
    /\ menu.at = "none"
    /\ menu' = [at |-> "loop", closes |-> 0, exit |-> "none"]
    /\ UNCHANGED <<sessionVars, temperature_unit, callerVars,
                   second, previous, recv_timeouts>>

MenuFinally_ExceptWithoutClose ==
    /\ menu.at = "loop"
    /\ pc = "idle"
    /\ IF ExitCause = "exception"
       THEN /\ menu' = [at |-> "finally", closes |-> menu.closes, exit |-> ExitCause]
            /\ UNCHANGED <<sessionVars, temperature_unit, callerVars>>
       ELSE /\ menu' = [at |-> "finally", closes |-> menu.closes + 1, exit |-> ExitCause]
            /\ CloseCall
    /\ UNCHANGED <<second, previous, recv_timeouts>>

\* the loop ends, by break, KeyboardInterrupt at the prompt or an
\* exception, and the finally clause calls close
MenuFinally ==
    /\ menu.at = "loop"
    /\ pc = "idle"
    /\ menu' = [at |-> "finally", closes |-> menu.closes + 1, exit |-> ExitCause]
    /\ CloseCall
    /\ UNCHANGED <<second, previous, recv_timeouts>>

\* the numbers entered at the prompts of the operations the loop calls
LoopTemperatures == {100, 483}

LoopFrames == {F_apo_list, F_array, F_response}

LoopNext ==
    \/ MenuFinally
    \/ /\ ~Leaving
       /\ \/ menu.at = "none" /\ tasks = <<>> /\ Connect
          \/ ConnectFail
          \/ ConnectOpen
          \/ DiscoveryWake
          \/ menu.at = "none" /\ SelectDevice
          \/ MenuRun
          \/ menu.at = "loop" /\ \E choice \in MenuChoices :
                \E temp \in LoopTemperatures : \E unit \in Units :
                   HandleMenuChoice(choice, temp, 0, unit)
          \/ menu.at = "loop" /\ StreamOpen
          \/ MonitorPoll
          \/ StreamClose
          \/ SendDone
          \/ SendWake
          \/ CloseWaitDone
          \/ CloseWaitTimeout
          \/ \E raised \in BOOLEAN : CloseSocket(raised)
          \/ \E t \in 1..Len(tasks) :
                \/ \E frame \in LoopFrames : ListenerFrame(t, frame)
                \/ ListenerCancelled(t)

LoopSpec == Init /\ [][LoopNext]_vars

----------------------------------------------------------------------------
(* The correlator, on a session that is opened once, with requestIds on    *)
(* the commands and on the frames, and with a second task that calls       *)
(* send_command_and_wait_for_response while the caller's send may be in    *)
(* flight.                                                                 *)

\* values of generate_uuid() (uuid.uuid4 in Command.requestId)
RequestIds == {"r1", "r2"}

\* what a frame carries as "requestId": one of the ids, or no such key
ServerTags == {"absent"} \cup RequestIds

\* a frame with or without the key "requestId"
Tagged(frame, tag) ==
    [json |-> frame.json,
     has_command |-> frame.has_command, command |-> frame.command,
     has_payload |-> frame.has_payload, payload |-> frame.payload,
     has_requestId |-> tag # "absent", requestId |-> tag]

S_CMD_APO_START == S_CMD_ \o <<"A","P","O","_","S","T","A","R","T">>
S_EVENT_APO_STATE == S_EVENT_ \o <<"A","P","O","_">> \o S_STATE

\* a JSON object without the key "command"
F_nocommand == Frame("object", FALSE, <<>>, FALSE, <<>>)

\* the frames of this session: responses and state echoes with and without
\* a requestId, a command echo, the export event, another event, an object
\* without command, and a device list
CorrelatorFrames ==
    {Tagged(frame, tag) : frame \in {F_response, F_cmd_state}, tag \in ServerTags}
    \cup {Tagged(frame, "absent") :
            frame \in {ObjectFrame(S_CMD_APO_START), ObjectFrame(S_EVENT_EXPORT_READY),
                       ObjectFrame(S_EVENT_APO_STATE), F_nocommand, F_apc_list}}

\* a command with its "requestId"
CommandWith(id) == [command |-> "CMD_APO_STOP", requestId |-> id]

\* a call of send_command_and_wait_for_response by the caller, with the
\* requestId of its command; what the call before it returned is remembered
SendTagged(T, id) ==
    /\ pc = "idle"
    /\ SendCall("send", CommandWith(id), T)
    /\ entered' = <<>>
    /\ previous' = IF result[1] = "send"
                   THEN <<[requestId |-> command_data.requestId, value |-> result[2]]>>
                   ELSE <<>>
    /\ UNCHANGED <<sessionVars, temperature_unit, second, recv_timeouts, menu>>

SecondPoll_Exclusive(now) ==
    LET r == ScanNewMessages(message_history, second.initial_count) IN
    CASE r.outcome = "match" /\ displayed # <<r.index>> ->
            [second EXCEPT !.pc = "idle", !.result = "True", !.elapsed = 0,
                           !.timeout = 0, !.displayed = <<r.index>>]
      [] r.outcome = "raise" ->
            [second EXCEPT !.pc = "idle", !.result = "False:exception",
                           !.elapsed = 0, !.timeout = 0]
      [] OTHER ->
            [second EXCEPT !.pc = "send_sleep", !.result = "pending",
                           !.elapsed = now]

\* one pass of the polling loop of the second task's call, up to its sleep
SecondPoll(now) ==
    LET r == ScanNewMessages(message_history, second.initial_count) IN
    CASE r.outcome = "match" ->
            [second EXCEPT !.pc = "idle", !.result = "True", !.elapsed = 0,
                           !.timeout = 0, !.displayed = <<r.index>>]
      [] r.outcome = "raise" ->
            [second EXCEPT !.pc = "idle", !.result = "False:exception",
                           !.elapsed = 0, !.timeout = 0]
      [] OTHER ->
            [second EXCEPT !.pc = "send_sleep", !.result = "pending",
                           !.elapsed = now]

\* the second task calls send_command_and_wait_for_response
SecondSendBegin(T, id) ==
    /\ second.pc = "idle"
    /\ second' = IF websocket = "none"
                 THEN [NoCall EXCEPT !.requestId = id, !.result = "False:exception"]
                 ELSE [pc |-> "sending", initial_count |-> Len(message_history),
                       elapsed |-> 0, timeout |-> T, requestId |-> id,
                       result |-> "pending", displayed |-> <<>>]
    /\ UNCHANGED <<sessionVars, temperature_unit, callerVars, previous, recv_timeouts, menu>>

\* its websocket.send returns, or raises because the connection is closed
SecondSendDone ==
    /\ second.pc = "sending"
    /\ second' = IF websocket = "open"
                 THEN SecondPoll(0)
                 ELSE [second EXCEPT !.pc = "idle", !.result = "False:exception",
                                     !.elapsed = 0, !.timeout = 0]
    /\ UNCHANGED <<sessionVars, temperature_unit, callerVars, previous, recv_timeouts, menu>>

\* its asyncio.sleep(0.1) returns
SecondSendWake ==
    /\ second.pc = "send_sleep"
    /\ second' = IF second.elapsed + 1 < second.timeout
                 THEN SecondPoll(second.elapsed + 1)
                 ELSE [second EXCEPT !.pc = "idle", !.result = "False:timeout",
                                     !.elapsed = 0, !.timeout = 0]
    /\ UNCHANGED <<sessionVars, temperature_unit, callerVars, previous, recv_timeouts, menu>>

CorrelatorNext ==
    \/ tasks = <<>> /\ Connect
    \/ ConnectFail
    \/ ConnectOpen
    \/ DiscoveryWake
    \/ \E T \in 1..MaxTimeout : \E id \in RequestIds : SendTagged(T, id)
    \/ SendDone
    \/ SendWake
    \/ \E T \in 1..MaxTimeout : \E id \in RequestIds : SecondSendBegin(T, id)
    \/ SecondSendDone
    \/ SecondSendWake
    \/ \E t \in 1..Len(tasks) : \E frame \in CorrelatorFrames : ListenerFrame(t, frame)

CorrelatorSpec == Init /\ [][CorrelatorNext]_vars

----------------------------------------------------------------------------
(* The listener of a session that is opened once, with its receive         *)
(* timeouts.                                                               *)

ListenerNext ==
    \/ tasks = <<>> /\ Connect
    \/ ConnectFail
    \/ ConnectOpen
    \/ DiscoveryWake
    \/ TransportClose
    \/ \E t \in 1..Len(tasks) :
         \/ \E frame \in Frames : ListenerFrame(t, frame)
         \/ ListenerTimeout(t)
         \/ ListenerClosed(t)

ListenerSpec == Init /\ [][ListenerNext]_vars

----------------------------------------------------------------------------
(* Properties *)

\* the messages of self.message_history[initial_count:]
NewIndices == (initial_count + 1)..Len(message_history)

IsStateEcho(entry) ==
    IsDict(entry.data) /\ StartsWith(CommandOf(entry.data), S_CMD_STATE)

\* C1: a call of send_command_and_wait_for_response never returns True while
\* every message at index >= initial_count is a CMD_STATE echo, whatever lies
\* below initial_count, and it never sleeps again once its timeout elapsed:
\* it ends with the timeout failure.
C1_StateEchoNeverMatches ==
    /\ (result[1] = "send" /\ \A i \in NewIndices : IsStateEcho(message_history[i]))
          => result[2] \in {"pending", "False:timeout", "False:exception"}
    /\ pc = "send_sleep" => elapsed < timeout

C1_Witness ==
    /\ result = <<"send", "False:timeout">>
    /\ initial_count = 1
    /\ StartsWith(CommandOf(message_history[1].data), S_RESPONSE)
    /\ Len(message_history) = 2
    /\ IsStateEcho(message_history[2])

\* C2: a send never reports the timeout when a RESPONSE message was appended
\* after the send and strictly before the timeout elapsed.
C2_ResponseBeforeTimeoutSucceeds ==
    ~(result = <<"send", "False:timeout">> /\ in_window)

\* C3: no listener task is ended by a frame that fails to parse or whose
\* processing raises: the loop keeps running after a bad frame.
C3_ListenerSurvivesBadFrame ==
    \A t \in 1..Len(tasks) : tasks[t] # "crashed"

\* C4: every step leaves the message history unchanged or adds exactly one
\* entry, that of a received frame, at its tail.
C4_HistoryAppendOnly ==
    [][\/ message_history' = message_history
       \/ \E frame \in Frames :
            message_history' = Append(message_history, Entry(frame))]_vars

C4_Witness ==
    /\ Len(message_history) = 2
    /\ message_history[1] # message_history[2]

\* C5: every step that changes the message history is the receive step of
\* a running listener task: no step of the caller (connect,
\* wait_for_device_discovery, select_device,
\* send_command_and_wait_for_response, the stream monitor, close) and no
\* other step changes it.
C5_OnlyListenerWritesHistory ==
    [][message_history' # message_history =>
          \E t \in Receiving : \E frame \in Frames : ListenerFrame(t, frame)]_vars

C5_Witness ==
    /\ result = <<"send", "True">>
    /\ Len(message_history) = 2
    /\ initial_count = 1

\* the devices a payload announces, in its order (a descriptor without
\* cookerId announces none)
RECURSIVE Announced(_, _, _)
Announced(payload, family, defaultName) ==
    IF payload = <<>> THEN <<>>
    ELSE (IF Head(payload).has_cookerId
          THEN <<DeviceOf(Head(payload), family, defaultName)>>
          ELSE <<>>) \o Announced(Tail(payload), family, defaultName)

\* the devices the discovery events of a history announce, in receipt order
RECURSIVE AnnouncedIn(_)
AnnouncedIn(history) ==
    IF history = <<>> THEN <<>>
    ELSE LET data == Head(history).data IN
         (IF IsDict(data) /\ data.has_command /\ data.has_payload
                /\ data.command = S_EVENT_APC_WIFI_LIST
          THEN Announced(data.payload, "APC", "Anova Precision Cooker")
          ELSE IF IsDict(data) /\ data.has_command /\ data.has_payload
                /\ data.command = S_EVENT_APO_WIFI_LIST
          THEN Announced(data.payload, "APO", "Anova Precision Oven")
          ELSE <<>>) \o AnnouncedIn(Tail(history))

\* C6: the device list holds at most one device per identifier, and that
\* device carries the name, family and sub-type of the first descriptor with
\* that identifier among the discovery events received.
C6_FirstSeenDescriptorWins ==
    LET seen == AnnouncedIn(message_history) IN
    /\ \A i, j \in 1..Len(devices) : devices[i].id = devices[j].id => i = j
    /\ \A i \in 1..Len(devices) :
         \E k \in 1..Len(seen) :
            /\ seen[k] = devices[i]
            /\ \A m \in 1..(k - 1) : seen[m].id # devices[i].id

NoDiscoveryEvent ==
    \A i \in 1..Len(message_history) :
        LET data == message_history[i].data IN
        ~(IsDict(data) /\ data.has_command /\ data.has_payload
            /\ data.command \in {S_EVENT_APC_WIFI_LIST, S_EVENT_APO_WIFI_LIST})

\* C8: wait_for_device_discovery never sleeps once its 5 seconds elapsed,
\* every wake-up of it returns or advances its clock, the device list is
\* empty as long as no discovery event arrived, and connect returns True
\* whenever the socket was opened.
C8_DiscoveryTerminatesEmpty ==
    /\ [](pc = "disc_sleep" => elapsed < DiscoveryTimeout * TicksPerSecond)
    /\ [](NoDiscoveryEvent => devices = <<>>)
    /\ [][DiscoveryWake =>
            \/ pc' = "disc_sleep" /\ elapsed' = elapsed + 1
            \/ /\ pc' = "idle"
               /\ result' \in {<<"connect", "True:found">>,
                               <<"connect", "True:timeout">>,
                               <<"connect", "True:exception">>}]_vars

C8_Witness ==
    /\ result = <<"connect", "True:timeout">>
    /\ devices = <<>>
    /\ NoDiscoveryEvent

\* C9: a pass of wait_for_device_discovery that observes a non-empty device
\* list returns in that same step: it never goes to sleep again.
C9_DiscoveryReturnsEarly ==
    [][(ConnectOpen \/ DiscoveryWake) /\ devices' # <<>> => pc' = "idle"]_vars

\* on the first connect the history is empty when the socket opens, so the
\* device was found by a pass after at least one sleep
C9_Witness ==
    /\ result = <<"connect", "True:found">>
    /\ Len(tasks) = 1
    /\ devices # <<>>

\* C10: at most one continuous_message_listener task is alive at any time.
C10_AtMostOneListener ==
    Cardinality(Alive) <= 1

\* C11: close attempts every teardown step and never raises.  A close that
\* finds the receive task running requests its cancellation and waits; every
\* end of that wait, by the task's end or by the 2 seconds elapsing, goes on
\* to the socket close; and a close that has returned on a session with a
\* socket has called the socket close, whose exception, if any, it swallowed.
C11_CloseAttemptsEveryStep ==
    /\ [](AfterClose => result[2] \in {"None", "None:closed", "None:swallowed"})
    /\ [](AfterClose /\ websocket # "none"
            => result[2] \in {"None:closed", "None:swallowed"})
    /\ [][CloseBegin /\ listener_task # 0 /\ ~Done(tasks[listener_task])
            => tasks'[listener_task] = "cancel_requested" /\ pc' = "close_wait"]_vars
    /\ [][pc = "close_wait" /\ pc' # "close_wait" => pc' = "close_sock"]_vars

\* the wait timed out, the socket close raised, and close returned
C11_Witness ==
    /\ result = <<"close", "None:swallowed">>
    /\ listener_task # 0
    /\ tasks[listener_task] = "cancel_requested"

\* C12: close always terminates: a close that is running eventually returns,
\* whatever the receive task and the socket close do.
C12_CloseTerminates ==
    (result = <<"close", "pending">>) ~> AfterClose

\* C13: a close called right after a completed close, the receive task being
\* finished, neither cancels the task nor waits for it, and none of its
\* steps changes the tasks, the message history, the device list or the
\* selected device; it returns normally.
C13_CloseIdempotent ==
    /\ [][CloseBegin /\ AfterClose
             /\ (listener_task = 0 \/ Done(tasks[listener_task]))
            => /\ pc' # "close_wait"
               /\ UNCHANGED <<tasks, listener_task, message_history, devices,
                              selected_device, device_type>>]_vars
    /\ [][reclose /\ (\E raised \in BOOLEAN : CloseSocket(raised))
            => /\ AfterClose'
               /\ UNCHANGED <<tasks, listener_task, message_history, devices,
                              selected_device, device_type>>]_vars

\* a second close has returned on a session that had received a frame,
\* selected a device and whose receive task the first close cancelled
C13_Witness ==
    /\ reclose
    /\ AfterClose
    /\ listener_task # 0
    /\ tasks[listener_task] = "cancelled"
    /\ message_history # <<>>
    /\ selected_device # <<>>

\* C14: one call of send_command_and_wait_for_response calls the socket's
\* send once: never more than once, and exactly once when the call went on
\* to wait for a response, whether it ended with a response or the timeout.
C14_NoAutomaticRetry ==
    /\ sent <= 1
    /\ pc = "send_sleep" => sent = 1
    /\ result \in {<<"send", "True">>, <<"send", "False:timeout">>} => sent = 1

\* a send that polled twice and ended in its timeout
C14_Witness ==
    /\ result = <<"send", "False:timeout">>
    /\ sent = 1
    /\ Len(message_history) > initial_count

\* a start-cook operation of the controller was the last call, with the
\* numbers entered at its prompts in entered
CookCalled == result[1] \in CookOps

\* main's Command.start was the last call, with the bulb of a factory
\* method: TempBulb.wet_bulb(temp) or TempBulb.dry_bulb(temp)
BuiltWith(mode) ==
    /\ result[1] = "Command.start"
    /\ entered.bulb.mode = mode
    /\ \E temp \in Setpoints :
         entered.bulb = IF mode = "wet" THEN wet_bulb(temp) ELSE dry_bulb(temp)

\* the session as the operations see it
SessionState == <<message_history, devices, selected_device, device_type,
                  websocket, tasks, listener_task>>

\* C15: a start-cook operation given a temperature above max_temp of its
\* input unit, or a humidity outside 0..100, returns having transmitted
\* nothing, and leaves message history, device list, selected device and
\* temperature unit as they were.
C15_ValidationBeforeIO ==
    /\ [](CookCalled
            /\ (entered.temp > max_temp(result[1], InputUnit(result[1]))
                \/ (AsksHumidity(result[1])
                    /\ (entered.humidity < 0 \/ entered.humidity > 100)))
          => pc = "idle" /\ sent = 0 /\ result[2] = "None:rejected")
    /\ [][pc = "idle" /\ CookCalled'
            /\ StartCook(result'[1], entered'.temp, entered'.humidity)
            /\ (entered'.temp > max_temp(result'[1], InputUnit(result'[1]))
                \/ (AsksHumidity(result'[1])
                    /\ (entered'.humidity < 0 \/ entered'.humidity > 100)))
            => /\ pc' = "idle"
               /\ sent' = 0
               /\ UNCHANGED <<SessionState, temperature_unit>>]_vars

C15_Witness ==
    /\ result = <<"start_oven_steam", "None:rejected">>
    /\ entered.temp = 100
    /\ entered.humidity = -1
    /\ websocket = "open"
    /\ selected_device # <<>>
    /\ message_history # <<>>

\* the Celsius ceiling of a start-cook operation of the controller
CeilingCelsius(op) == max_temp(op, "C")

\* a start-cook operation was the last call, in range of humidity and with
\* a device selected, so that only the temperature decides
TemperatureDecides ==
    /\ CookCalled
    /\ ~(AsksHumidity(result[1]) /\ (entered.humidity < 0 \/ entered.humidity > 100))
    /\ result[2] # "raised:TypeError"

\* the stage of the last Command.start has heating elements that are not
\* bottom-only, so that only the bulb decides
BulbDecides(mode) == BuiltWith(mode) /\ ~is_bottom_only(entered.elements)

\* C16 as stated: in the operations of the controller and in the payload
\* builder alike, the command is refused when the Celsius temperature
\* exceeds the ceiling (95 cooker sous-vide, 100 wet bulb, 250 roast and
\* steam) and built for every temperature at or below it, with no lower
\* bound.
C16_CeilingsNoLowerBound ==
    /\ TemperatureDecides
         => ((result[2] = "None:rejected")
               <=> (ToCelsius9(entered.temp, InputUnit(result[1]))
                      > 9 * CeilingCelsius(result[1])))
    /\ BulbDecides("wet")
         => ((result[2] = "raised:ValidationError") <=> (entered.bulb.wet[1] > 100))
    /\ BulbDecides("dry")
         => ((result[2] = "raised:ValidationError") <=> (entered.bulb.dry[1] > 250))

\* C16, amended: an operation of the controller refuses the command when
\* the Celsius temperature exceeds its ceiling (95 cooker sous-vide, 100 oven
\* sous-vide, 250 roast and steam) and builds and sends it for every
\* temperature at or below the ceiling, with no lower bound; the payload
\* builder refuses a wet bulb above 100 and a dry bulb above 250, accepts
\* the ceiling itself, and also refuses every setpoint below 25.
C16_Ceilings ==
    /\ TemperatureDecides
         => /\ (result[2] = "None:rejected")
                 <=> (ToCelsius9(entered.temp, InputUnit(result[1]))
                        > 9 * CeilingCelsius(result[1]))
            /\ result[2] # "None:rejected"
                 => /\ command_data.celsius9 <= 9 * CeilingCelsius(result[1])
                    /\ (pc = "idle" => sent = 1)
    /\ BulbDecides("wet")
         => ((result[2] = "raised:ValidationError")
               <=> (entered.bulb.wet[1] > 100 \/ entered.bulb.wet[1] < 25))
    /\ BulbDecides("dry")
         => ((result[2] = "raised:ValidationError")
               <=> (entered.bulb.dry[1] > 250 \/ entered.bulb.dry[1] < 25))

C16_Witness ==
    /\ result = <<"start_oven_sous_vide", "True">>
    /\ temperature_unit = "C"
    /\ entered.temp = 100
    /\ sent = 1

\* C20: with the temperature unit set to F, start_sous_vide_cook accepts
\* an input of 203 and transmits a targetTemperature of 95 with "unit": "C",
\* and refuses 204; whatever Fahrenheit input it accepts, the value on the
\* wire is (f - 32) * 5 / 9 and the unit on the wire is "C".
C20_FahrenheitConversion ==
    result[1] = "start_sous_vide_cook" /\ temperature_unit = "F"
      => /\ entered.temp = 204 => result[2] = "None:rejected"
         /\ entered.temp = 203 => result[2] # "None:rejected"
         /\ entered.temp = 203 /\ result[2] # "raised:TypeError"
              => command_data.celsius9 = 9 * 95 /\ command_data.unit = "C"
         /\ result[2] \notin {"None:rejected", "raised:TypeError"}
              => /\ command_data.celsius9 = (entered.temp - 32) * 5
                 /\ command_data.unit = "C"
                 /\ (pc = "idle" => sent = 1)

C20_Witness ==
    /\ result[1] = "start_sous_vide_cook"
    /\ pc = "idle"
    /\ temperature_unit = "F"
    /\ entered.temp = 203
    /\ command_data.celsius9 = 855
    /\ sent = 1

\* the last Command.start raised instead of building its command
BuildFailed == result[2] \in {"raised:ValidationError", "raised:AttributeError"}

\* C17: a Stage with bottom-only heating elements and a dry bulb is built
\* exactly when 25 <= target <= 180: 180 is accepted, 181 is refused.
C17_BottomOnlyDryBoundary ==
    BuiltWith("dry") /\ is_bottom_only(entered.elements)
      => /\ ~BuildFailed <=> (25 <= entered.bulb.dry[1] /\ entered.bulb.dry[1] <= 180)
         /\ BuildFailed => result[2] = "raised:ValidationError" /\ sent = 0
         /\ ~BuildFailed /\ pc = "idle" => sent = 1

C17_Witness ==
    /\ BuiltWith("dry")
    /\ is_bottom_only(entered.elements)
    /\ entered.bulb.dry[1] = 180
    /\ pc = "idle"
    /\ sent = 1

\* C18: a Stage with bottom-only heating elements and a wet bulb inside
\* 25..100 is built; the bottom-only check neither refuses it nor raises.
C18_BottomOnlyWetAccepted ==
    /\ BuiltWith("wet")
    /\ is_bottom_only(entered.elements)
    /\ 25 <= entered.bulb.wet[1]
    /\ entered.bulb.wet[1] <= 100
    => ~BuildFailed

\* the bulb given to the last Command.start breaks an invariant of its mode:
\* a wet bulb outside 25..100, a dry bulb outside 25..250, or a bulb that
\* carries both setpoints, none, or only that of the other mode
BulbBreaksInvariant ==
    LET bulb == entered.bulb IN
    \/ bulb.dry # <<>> /\ bulb.wet # <<>>
    \/ bulb.dry = <<>> /\ bulb.wet = <<>>
    \/ bulb.mode = "wet" /\ (bulb.wet = <<>> \/ bulb.wet[1] < 25 \/ bulb.wet[1] > 100)
    \/ bulb.mode = "dry" /\ (bulb.dry = <<>> \/ bulb.dry[1] < 25 \/ bulb.dry[1] > 250)

\* C19: building the Stage, the Cook and the start Command fails when the
\* bulb breaks an invariant of its mode (TempBulb.wet_bulb(150) is refused),
\* and a command that was built carries the bulb as it was supplied.
C19_BulbInvariantsEnforced ==
    result[1] = "Command.start"
      => /\ BulbBreaksInvariant
              => result[2] = "raised:ValidationError" /\ sent = 0 /\ pc = "idle"
         /\ ~BuildFailed
              => /\ ~BulbBreaksInvariant
                 /\ command_data.bulb = entered.bulb
                 /\ (pc = "idle" => sent = 1)

C19_Witness ==
    /\ result = <<"Command.start", "raised:ValidationError">>
    /\ entered.bulb = wet_bulb(150)
    /\ ~is_bottom_only(entered.elements)
    /\ sent = 0

\* the family a command addresses, by its name: CMD_APC_... or CMD_APO_...
FamilyOf(cmd) ==
    IF cmd.command \in {"CMD_APC_STOP", "CMD_APC_START", "CMD_APC_SET_TEMPERATURE_UNIT"}
    THEN "APC" ELSE "APO"

\* C21: stop_device on a selected device transmits a stop command of the
\* family of that device, addressed to it: CMD_APC_STOP for an APC device,
\* CMD_APO_STOP for an APO device.
C21_StopPerFamily ==
    result[1] = "stop_device" /\ pc = "send_sleep" /\ sent = 1
      => /\ command_data.command \in {"CMD_APC_STOP", "CMD_APO_STOP"}
         /\ command_data.id = selected_device[1].id
         /\ FamilyOf(command_data) = device_type

\* C22: when websockets.connect raises, connect returns False and is over
\* (no second attempt), and the step that returns leaves socket, listener
\* tasks, message history, device list and selection as they were.
C22_ConnectFailureNoSideEffects ==
    /\ [](result = <<"connect", "False">> => pc = "idle")
    /\ [][pc = "connecting" /\ result' = <<"connect", "False">>
            => /\ pc' = "idle"
               /\ UNCHANGED <<websocket, tasks, listener_task, message_history,
                              devices, selected_device, device_type>>]_vars

C22_Witness ==
    /\ result = <<"connect", "False">>
    /\ Len(tasks) = 1
    /\ tasks[1] = "running"
    /\ websocket = "open"
    /\ message_history # <<>>
    /\ devices # <<>>

\* history[i] is a message the loop of the send classifies as a response
ResponseAt(i) ==
    /\ IsDict(message_history[i].data)
    /\ IsResponse(CommandOf(message_history[i].data))

\* a pass of the polling loop that runs now finds a response among the
\* messages at index >= initial_count, and no message before it on which
\* data.get raises
HasNewResponse ==
    \E i \in NewIndices :
        /\ ResponseAt(i)
        /\ \A j \in NewIndices : j < i => IsDict(message_history[j].data)

\* the step is one of the running send: its websocket.send returns, or its
\* sleep returns with the timeout not yet elapsed
SendPasses ==
    \/ pc = "sending" /\ websocket = "open" /\ pc' # "sending"
    \/ pc = "send_sleep" /\ elapsed + 1 < timeout
         /\ (pc' # "send_sleep" \/ elapsed' # elapsed)

\* C23: a send succeeds only on a message at an index >= initial_count,
\* the length of the history taken before websocket.send, whatever the
\* messages below that index are; and every message at such an index counts
\* at the next pass of the loop, also one that was appended while
\* websocket.send itself had not returned.
C23_OnlyNewMessagesCount ==
    /\ [](result = <<"send", "True">> => \E i \in NewIndices : ResponseAt(i))
    /\ [][SendPasses /\ HasNewResponse => result'[2] = "True"]_vars
    /\ [][SendPasses /\ ~(\E i \in NewIndices : ResponseAt(i))
            => result'[2] # "True"]_vars

\* a RESPONSE lay below initial_count, and the RESPONSE the send succeeded
\* on was appended before websocket.send had returned
C23_Witness ==
    /\ result = <<"send", "True">>
    /\ initial_count = 1
    /\ message_history[1].data = F_response
    /\ Len(message_history) = 2
    /\ ResponseAt(2)
    /\ ~in_window

\* the message at history[i] has a command that starts with "RESPONSE", or
\* with "CMD_" but not with "CMD_STATE", or is "EVENT_EXPORT_READY"; a
\* message without command has none of these
CountsAsResponse(i) ==
    LET data == message_history[i].data IN
    /\ data.has_command
    /\ \/ StartsWith(data.command, S_RESPONSE)
       \/ StartsWith(data.command, S_CMD_) /\ ~StartsWith(data.command, S_CMD_STATE)
       \/ data.command = S_EVENT_EXPORT_READY

\* the lowest index >= initial_count of a message that counts as a response
FirstResponse ==
    CHOOSE i \in NewIndices :
        CountsAsResponse(i) /\ \A j \in NewIndices : CountsAsResponse(j) => i <= j

\* C24: a pass of the send's loop returns True exactly when a message at an
\* index >= initial_count has a command that starts with "RESPONSE", or
\* with "CMD_" but not "CMD_STATE", or equals "EVENT_EXPORT_READY" (no other
\* event, no device list and no message without command does), and the
\* message it returns on is the one of lowest index among these.
C24_ResponseClassification ==
    /\ [][SendPasses
            => (result'[2] = "True" <=> \E i \in NewIndices : CountsAsResponse(i))]_vars
    /\ [][SendPasses /\ result'[2] = "True" => displayed' = <<FirstResponse>>]_vars
    /\ [](result = <<"send", "True">>
            => displayed # <<>> /\ CountsAsResponse(displayed[1]))

C24_Witness ==
    /\ result = <<"send", "True">>
    /\ initial_count = 0
    /\ Len(message_history) = 2
    /\ message_history[1].data = Tagged(ObjectFrame(S_EVENT_EXPORT_READY), "absent")
    /\ message_history[2].data = Tagged(ObjectFrame(S_CMD_APO_START), "absent")
    /\ displayed = <<1>>

\* the history as it would be had no frame carried a requestId
WithoutRequestIds(history) ==
    [i \in DOMAIN history |-> Entry(Tagged(history[i].data, "absent"))]

\* C25: what a pass of the send's loop returns, and the message it returns
\* on, are those of the same pass over the history with every requestId
\* removed: they depend on no requestId of an inbound message, and on
\* nothing of the outbound command.
C25_RequestIdIgnored ==
    [][SendPasses
         => LET r == ScanNewMessages(WithoutRequestIds(message_history), initial_count)
            IN /\ result'[2] = "True" <=> r.outcome = "match"
               /\ result'[2] = "True" => displayed' = <<r.index>>
               /\ result'[2] # "True" => displayed' = <<>>]_vars

\* a state echo that carries the requestId of the command did not count, and
\* the RESPONSE without requestId after it did
C25_Witness ==
    /\ result = <<"send", "True">>
    /\ initial_count = 0
    /\ Len(message_history) = 2
    /\ message_history[1].data = Tagged(F_cmd_state, command_data.requestId)
    /\ message_history[2].data = Tagged(F_response, "absent")
    /\ displayed = <<2>>

\* the step is one of the second task's send: its websocket.send returns,
\* or its sleep returns with the timeout not yet elapsed
SecondPasses ==
    \/ second.pc = "sending" /\ websocket = "open" /\ second'.pc # "sending"
    \/ second.pc = "send_sleep" /\ second.elapsed + 1 < second.timeout
         /\ second' # second

\* the messages at an index >= initial_count of the second task's send
SecondNewIndices == (second.initial_count + 1)..Len(message_history)

\* the caller's send before the running one timed out, and history[i]
\* carries the requestId of its command
AnswersTimedOut(i) ==
    /\ previous # <<>>
    /\ previous[1].value = "False:timeout"
    /\ message_history[i].data.requestId = previous[1].requestId

\* C26: nothing attributes a response to its command.  After a send A that
\* timed out, a pass of the next send B returns True on a response that
\* carries the requestId of A and was appended after B was called; and with
\* two sends in flight, a response appended after both resolves each of
\* them at its next pass, also when it has resolved the other already.
C26_NoAttribution ==
    /\ [][SendPasses
            /\ (\E i \in NewIndices : CountsAsResponse(i) /\ AnswersTimedOut(i))
            => result' = <<"send", "True">>]_vars
    /\ [][SendPasses /\ second.result = "True" /\ second.displayed[1] \in NewIndices
            => result' = <<"send", "True">>]_vars
    /\ [][SecondPasses /\ result = <<"send", "True">> /\ displayed[1] \in SecondNewIndices
            => second'.result = "True"]_vars
    /\ [][SecondPasses /\ (\E i \in SecondNewIndices : CountsAsResponse(i))
            => second'.result = "True"]_vars

\* send A (r1) timed out; B (r2) and the send of the second task were in
\* flight when the only response of the session, which carries r1, was
\* appended, and both returned True on it
C26_Witness ==
    /\ previous = <<[requestId |-> "r1", value |-> "False:timeout"]>>
    /\ result = <<"send", "True">>
    /\ command_data.requestId = "r2"
    /\ second.result = "True"
    /\ displayed = second.displayed
    /\ message_history[displayed[1]].data = Tagged(F_response, "r1")
    /\ \A i \in 1..Len(message_history) : CountsAsResponse(i) => i = displayed[1]
    /\ AnswersTimedOut(displayed[1])

\* every device a discovery event of the history announces is in self.devices
DiscoveryUpToDate ==
    LET announced == AnnouncedIn(message_history) IN
    \A i \in 1..Len(announced) : Known(devices, announced[i].id)

\* C27: whenever a listener task is suspended in recv, waiting for the next
\* frame, every identifier of a descriptor of a discovery event in the
\* message history is the id of a device of the device list.
C27_DiscoveryNeverStale ==
    (\E t \in 1..Len(tasks) : tasks[t] = "running") => DiscoveryUpToDate

\* C28: a receive timeout ends no listener task, appends nothing to the
\* message history and changes no device: the task that timed out waits in
\* recv again, and a frame that arrives after timeouts is appended.
C28_ReceiveTimeoutIsProbe ==
    /\ [][recv_timeouts' # recv_timeouts
            => /\ tasks' = tasks
               /\ \E t \in 1..Len(tasks') : tasks'[t] = "running"
               /\ UNCHANGED <<message_history, devices, selected_device,
                              device_type, websocket, listener_task>>]_vars
    /\ [](\A i \in 1..Len(recv_timeouts) : recv_timeouts[i] <= Len(message_history))
    /\ [][\A t \in 1..Len(tasks) :
            tasks[t] = "running" /\ tasks'[t] = "running"
            /\ message_history' # message_history
            => /\ Len(message_history') = Len(message_history) + 1
               /\ SubSeq(message_history', 1, Len(message_history)) = message_history]_vars

\* two consecutive timeouts with an empty history, then a frame that was
\* appended by the task that had timed out
C28_Witness ==
    /\ recv_timeouts = <<0, 0>>
    /\ Len(message_history) = 1
    /\ tasks = <<"running">>

\* the session's socket is closed and its receive task ended on the
\* exception recv raised
ClosureReported ==
    /\ listener_task # 0
    /\ websocket = "closed"
    /\ tasks[listener_task] = "recv_raised"

\* C29: once the session's socket has reported the closure to the receive
\* task, and until the caller connects again, no step makes the message
\* history grow, and a send_command_and_wait_for_response whose
\* websocket.send runs then returns False.
C29_ClosureEndsInput ==
    /\ [][ClosureReported => message_history' = message_history]_vars
    /\ [][ClosureReported /\ pc = "sending" /\ pc' # "sending"
             => result'[2] = "False:exception"]_vars

\* C30: while a start operation that the menu called for a selected oven
\* waits for its response, the command it sent has stages of the second
\* generation (keys "do" and "exit") exactly when the sub-type recorded for
\* the selected device is "oven_v2", and stages of the first generation
\* (keys "stepType" and "stageTransitionType") for every other sub-type,
\* the "unknown" recorded for a descriptor without type included.
C30_GenerationFollowsDevice ==
    result[1] \in CookOps /\ pc = "send_sleep" /\ sent = 1 /\ device_type = "APO"
    => /\ command_data.command = "CMD_APO_START"
       /\ command_data.stage_keys = {"do", "exit"}
            <=> selected_device[1].device_type = "oven_v2"
       /\ command_data.stage_keys = {"stepType", "stageTransitionType"}
            <=> selected_device[1].device_type # "oven_v2"

\* the first generation's roast was sent to an oven announced without type
C30_Witness ==
    /\ result = <<"start_oven_roast_v1", "pending">>
    /\ pc = "send_sleep"
    /\ sent = 1
    /\ device_type = "APO"
    /\ selected_device[1].device_type = "unknown"
    /\ command_data.stage_keys = {"stepType", "stageTransitionType"}

\* the steam operations
SteamOps == {"start_oven_steam", "start_oven_steam_v1"}

\* C31: a steam operation that transmitted its command was given a humidity
\* h with 0 <= h <= 100, and the command's relativeHumidity setpoint is h;
\* given h < 0 or h > 100 it transmits nothing; given 0 or 100, with a
\* temperature within its ceiling, it is not rejected.
C31_SteamHumidityBound ==
    result[1] \in SteamOps
    => /\ sent >= 1 => /\ entered.humidity \in 0..100
                       /\ command_data.humidity = <<entered.humidity>>
       /\ entered.humidity < 0 \/ entered.humidity > 100
            => sent = 0 /\ pc = "idle" /\ command_data = <<>>
       /\ entered.humidity \in 0..100
            /\ entered.temp <= max_temp(result[1], InputUnit(result[1]))
            => result[2] # "None:rejected"

\* the first generation's steam operation transmitted a humidity of 0
C31_Witness ==
    /\ result[1] = "start_oven_steam_v1"
    /\ entered.humidity = 0
    /\ sent = 1
    /\ command_data.humidity = <<0>>

\* the call is an export_telemetry
ExportCalled == result[1] = "export_telemetry"

\* C32: export_telemetry given two dates that parse, on a session with a
\* selected device, calls the send with one CMD_EXPORT_TELEMETRY command of
\* these dates and a timeout of 30 seconds, whatever the range of the
\* dates; the command is transmitted once when websocket.send returns and
\* never more than once; given a date that does not parse it transmits
\* nothing.  The send reports a timeout only once 30 seconds have passed.
C32_ExportChecksParseOnly ==
  /\ [][ExportCalled /\ result[2] = "pending" /\ result'[2] = "False:timeout"
          => elapsed + 1 >= ExportTimeout * TicksPerSecond]_vars
  /\ [](ExportCalled
    => /\ sent <= 1
       /\ Parses(entered.start_date) /\ Parses(entered.end_date)
            /\ selected_device # <<>>
            => /\ result[2] \notin {"None:rejected", "raised:TypeError"}
               /\ command_data.command = "CMD_EXPORT_TELEMETRY"
               /\ command_data.startTime = entered.start_date
               /\ command_data.endTime = entered.end_date
               /\ pc # "idle" => timeout = ExportTimeout * TicksPerSecond
               /\ pc = "send_sleep" \/ result[2] \in {"True", "False:timeout"}
                    => sent = 1
       /\ ~Parses(entered.start_date) \/ ~Parses(entered.end_date)
            => /\ sent = 0
               /\ pc = "idle"
               /\ command_data = <<>>
               /\ result[2] = "None:rejected")

\* an export over more than 14 days, from a day more than 90 days past,
\* waited its 30 seconds out and was transmitted once
C32_Witness ==
    /\ result = <<"export_telemetry", "False:timeout">>
    /\ sent = 1
    /\ DayNumber(entered.end_date) - DayNumber(entered.start_date) > 14
    /\ DayNumber(Today) - DayNumber(entered.start_date) > 90

\* C33: temperature_unit changes only in the step in which the send of a
\* set_temperature_unit returns True, and then it becomes the unit entered;
\* whenever that send returns True the unit entered is stored, and when it
\* returns False the unit is kept; a unit entered that, upper-cased and
\* stripped, is neither C nor F transmits nothing; temperature_unit is "C"
\* or "F" in every reachable state.
C33_UnitChangesOnConfirmation ==
    /\ [](temperature_unit \in {"C", "F"})
    /\ [](result[1] = "set_temperature_unit" /\ entered.unit \notin {"C", "F"}
            => sent = 0 /\ pc = "idle" /\ command_data = <<>>)
    /\ [][temperature_unit' # temperature_unit
            => /\ result = <<"set_temperature_unit", "pending">>
               /\ result' = <<"set_temperature_unit", "True">>
               /\ temperature_unit' = entered.unit]_vars
    /\ [][result = <<"set_temperature_unit", "pending">>
            /\ result'[2] # "pending"
            => temperature_unit' = IF result'[2] = "True" THEN entered.unit
                                   ELSE temperature_unit]_vars

\* a send of the unit F was confirmed by a response and F is stored
C33_Witness ==
    /\ result = <<"set_temperature_unit", "True">>
    /\ entered.unit = "F"
    /\ sent = 1
    /\ temperature_unit = "F"

\* C34: in every reachable state the selected device is none, with
\* device_type none, or an element of the device list whose family
\* device_type is; select_device selects the first device of the list and
\* returns True, and with an empty list it returns False and the selection
\* is none after it.
C34_SelectionInvariant ==
    /\ [](IF selected_device = <<>>
          THEN device_type = "none"
          ELSE /\ \E i \in 1..Len(devices) : devices[i] = selected_device[1]
               /\ device_type = selected_device[1].type)
    /\ [][SelectDevice
            => IF devices = <<>>
               THEN result' = <<"select", "False">> /\ selected_device' = <<>>
               ELSE result' = <<"select", "True">>
                    /\ selected_device' = <<devices[1]>>]_vars

\* of two devices discovered the first is selected
C34_Witness ==
    /\ result = <<"select", "True">>
    /\ Len(devices) = 2
    /\ selected_device = <<devices[1]>>
    /\ device_type = devices[1].type

\* the step is one in which websocket.send of the running send raises: the
\* socket is closed, or self.websocket is None when the send is called
SendRaises ==
    \/ pc = "sending" /\ websocket # "open" /\ pc' # "sending"
    \/ websocket = "none" /\ \E T \in 1..MaxTimeout : SendBegin(T)

\* C35: the step in which websocket.send raises is the return of
\* send_command_and_wait_for_response with False: nothing was transmitted,
\* no message of the history was looked at (also when a response is there),
\* no time of the timeout was waited, and the caller is not left with an
\* exception.
C35_FailedSendReported ==
    [][SendRaises
         => /\ pc' = "idle"
            /\ result' = <<result'[1], "False:exception">>
            /\ sent' = 0
            /\ displayed' = <<>>
            /\ elapsed' = 0
            /\ UNCHANGED <<sessionVars, temperature_unit>>]_vars

\* the send on a closed socket returned False although a response had been
\* appended after initial_count was taken
C35_Witness ==
    /\ result = <<"send", "False:exception">>
    /\ sent = 0
    /\ websocket = "closed"
    /\ HasNewResponse

\* C36: while show_message_stream is open the messages displayed are, in
\* order and once each, those appended since it was opened up to
\* last_count, and a pass of the monitor that finds new messages displays
\* every one of them, in receipt order, and goes on running.
C36_StreamShowsEachOnce ==
    /\ [](pc = "stream"
            => /\ last_count <= Len(message_history)
               /\ displayed = IndicesAfter(last_count - Len(displayed), last_count))
    /\ [][pc = "stream" /\ pc' # "idle" /\ displayed' # displayed
            => /\ displayed' = displayed \o IndicesAfter(last_count, Len(message_history))
               /\ last_count' = Len(message_history)
               /\ pc' = "stream"]_vars
    /\ [][pc = "stream" /\ pc' # "stream"
            => pc' = "idle" /\ result' = <<"stream", "None">>]_vars

\* run_interactive_menu has returned
MenuReturned == menu.at = "finally" /\ pc = "idle"

\* C37: run_interactive_menu calls close once and no more; the step in
\* which its loop ends, by choice 0, by KeyboardInterrupt or by an exception
\* of an operation, is the call of close, and the step after choice 0 or an
\* exception is that step; it returns only once that close has returned.
C37_MenuAlwaysCloses ==
    /\ [](menu.closes <= 1)
    /\ [](menu.at = "finally" => menu.closes = 1 /\ result[1] = "close")
    /\ [](MenuReturned => result[2] # "pending")
    /\ [][Leaving => menu'.at = "finally"]_vars
    /\ [][menu.at = "loop" /\ menu'.at # "loop"
            => /\ menu' = [at |-> "finally", closes |-> 1, exit |-> ExitCause]
               /\ result'[1] = "close"]_vars

\* the monitor of the message stream raised, the loop ended on that
\* exception, and the close it called has closed the socket and returned
C37_Witness ==
    /\ MenuReturned
    /\ menu = [at |-> "finally", closes |-> 1, exit |-> "exception"]
    /\ result = <<"close", "None:closed">>
    /\ \E i \in 1..Len(message_history) : ~IsDict(message_history[i].data)

\* C38: the command Command.start or Command.stop returns has the command
\* kind of the operation (CMD_APO_START, CMD_APO_STOP), a payload type equal
\* to that kind and a payload id equal to the device id given; the payload
\* of a stop command holds no cook, that of a start command the cook given.
C38_BuilderConsistent ==
    result[2] = "built"
    => /\ command_data.command = command_data.payload.type
       /\ command_data.command = IF result[1] = "Command.start"
                                 THEN "CMD_APO_START" ELSE "CMD_APO_STOP"
       /\ command_data.payload.id = entered.device_id
       /\ command_data.payload.payload = entered.cook
       /\ result[1] = "Command.stop" <=> command_data.payload.payload = <<>>

\* a stop command was built for device b
C38_Witness ==
    /\ result = <<"Command.stop", "built">>
    /\ entered.device_id = "b"
    /\ command_data.payload = Payload("b", "CMD_APO_STOP", <<>>)

====
